---------------------------- MODULE Spec2Model ----------------------------
(***************************************************************************)
(* A model of the Bant interpreter: the shared type representation with    *)
(* its unifying comparison, the list built-ins, the type checker, the      *)
(* tree-walking interpreter and the driver that runs the phases.           *)
(*                                                                         *)
(* Objects the C++ code reaches through std::shared_ptr are cells of a     *)
(* heap (a sequence; a pointer is an index, 0 is nullptr), so that the     *)
(* in-place mutations of the comparison and the pointer rebinding of the   *)
(* type checker are state changes and not identities.                      *)
(***************************************************************************)
EXTENDS Integers, Sequences, FiniteSets, TLC

VARIABLES
    tyPc,       \* SpecTypes: "pick" | "compared"
    tyIn,       \* SpecTypes: the pair of types handed to the comparison
    tyHeap,     \* SpecTypes: the type heap the comparison runs on
    tyOut,      \* SpecTypes: result of TypeChecker::compare
    bPc,        \* SpecBuiltin: "ready" | "returned" | "crashed"
    bIn,        \* SpecBuiltin: the built-in called and its argument terms
    bPre,       \* SpecBuiltin: the callee environment and machine state at the call
    bOut,       \* SpecBuiltin: what runBuiltin handed back
    pc,          \* Spec: where main is: "start", "lex", "parse", "check",
                 \*       "run" or "exited"
    sourceStream, \* Spec: the source text, as the sequence of its words
    lexer,       \* Spec: the Lexer of main
    parser,      \* Spec: the Parser of main, with the heaps it built
    tree,        \* Spec: the root expression
    typeChecker, \* Spec: the TypeChecker of main, with the heaps it left
    interpreter, \* Spec: the Interpreter of main, with the heaps it left
    status,      \* Spec: how the process ended, if it has (see Status)
    started,     \* Spec: the phases started so far, in order
    imports      \* SpecImports: Parser::preprocessImports at work, and the
                 \*       files it can read

tyVars == <<tyPc, tyIn, tyHeap, tyOut>>
bVars == <<bPc, bIn, bPre, bOut>>
mainVars == <<pc, sourceStream, lexer, parser, tree, typeChecker, interpreter,
              status, started>>
impVars == <<imports>>
vars == <<tyVars, bVars, mainVars, impVars>>

(***************************************************************************)
(* Bounds of the model.                                                    *)
(***************************************************************************)
MaxTypeSize == 3
MaxLen == 2

(***************************************************************************)
(* Types (unnamed/part_000, types.hpp).  A type object keeps the class it  *)
(* was constructed as (virtual dispatch follows the class) and its mutable *)
(* dataType tag.                                                           *)
(***************************************************************************)
NewType(cls, dataType) ==
    [cls |-> cls, dataType |-> dataType, resolved |-> FALSE,
     listType |-> 0, tupleTypes |-> <<>>,
     genericTypes |-> <<>>, argumentTypes |-> <<>>, argumentNames |-> <<>>,
     returnType |-> 0, functionBody |-> 0,
     hasInnerEnvironment |-> FALSE, functionInnerEnvironment |-> <<>>,
     isBuiltin |-> FALSE,
     identifier |-> "", ident |-> "", fieldTypes |-> <<>>]

IntType    == NewType("IntType", "INT")
BoolType   == NewType("BoolType", "BOOL")
CharType   == NewType("CharType", "CHAR")
NullType   == NewType("NullType", "NULLVAL")
UnknownType == NewType("UnknownType", "UNKNOWN")
ListType(elem) == [NewType("ListType", "LIST") EXCEPT !.listType = elem]
TupleType(elems) == [NewType("TupleType", "TUPLE") EXCEPT !.tupleTypes = elems]
GenType(identifier) == [NewType("GenType", "GEN") EXCEPT !.identifier = identifier]
FuncType(gens, args, ret) ==
    [NewType("FuncType", "FUNC") EXCEPT !.genericTypes = gens,
                                        !.argumentTypes = args,
                                        !.returnType = ret]
TypeclassType(ident, fields) ==
    [NewType("TypeclassType", "TYPECLASS") EXCEPT !.ident = ident,
                                                  !.fieldTypes = fields]

\* std::make_shared<T>(...): a new cell at the end of the heap.
New(h, obj) == [h |-> Append(h, obj), id |-> Len(h) + 1]

(***************************************************************************)
(* Type terms: the values from which the inputs are drawn.  AllocType      *)
(* builds the objects of a term the way the parser's parseType does, every *)
(* node a fresh object.                                                    *)
(***************************************************************************)
TInt == [k |-> "INT"]
TBool == [k |-> "BOOL"]
TNull == [k |-> "NULLVAL"]
TUnknown == [k |-> "UNKNOWN"]
TGen(n) == [k |-> "GEN", name |-> n]
TClass(n) == [k |-> "TYPECLASS", name |-> n]
TList(e) == [k |-> "LIST", elem |-> e]
TTuple(es) == [k |-> "TUPLE", elems |-> es]
TFunc(as, r) == [k |-> "FUNC", args |-> as, ret |-> r]

RECURSIVE AllocType(_, _)
RECURSIVE AllocTypes(_, _, _)
AllocTypes(h, terms, acc) ==
    IF terms = <<>> THEN [h |-> h, ids |-> acc]
    ELSE LET one == AllocType(h, Head(terms))
         IN AllocTypes(one.h, Tail(terms), Append(acc, one.id))
AllocType(h, t) ==
    CASE t.k = "INT" -> New(h, IntType)
      [] t.k = "BOOL" -> New(h, BoolType)
      [] t.k = "NULLVAL" -> New(h, NullType)
      [] t.k = "UNKNOWN" -> New(h, UnknownType)
      [] t.k = "GEN" -> New(h, GenType(t.name))
      [] t.k = "TYPECLASS" -> New(h, TypeclassType(t.name, <<>>))
      [] t.k = "LIST" ->
            LET e == AllocType(h, t.elem) IN New(e.h, ListType(e.id))
      [] t.k = "TUPLE" ->
            LET es == AllocTypes(h, t.elems, <<>>) IN New(es.h, TupleType(es.ids))
      [] t.k = "FUNC" ->
            LET as == AllocTypes(h, t.args, <<>>)
                r == AllocType(as.h, t.ret)
            IN New(r.h, FuncType(<<>>, as.ids, r.id))

\* The term a type object denotes, read by its dataType tag as the code
\* reads it (static_pointer_cast by tag); a null child reads as Unknown.
RECURSIVE ReadType(_, _)
RECURSIVE ReadTypes(_, _)
ReadTypes(h, ids) ==
    IF ids = <<>> THEN <<>>
    ELSE <<ReadType(h, Head(ids))>> \o ReadTypes(h, Tail(ids))
ReadType(h, id) ==
    IF id = 0 THEN TUnknown
    ELSE LET o == h[id] IN
         CASE o.dataType = "LIST" -> TList(ReadType(h, o.listType))
           [] o.dataType = "TUPLE" -> TTuple(ReadTypes(h, o.tupleTypes))
           [] o.dataType = "FUNC" ->
                 TFunc(ReadTypes(h, o.argumentTypes), ReadType(h, o.returnType))
           [] o.dataType = "GEN" -> TGen(o.identifier)
           [] o.dataType = "TYPECLASS" -> TClass(o.ident)
           [] OTHER -> [k |-> o.dataType]

(***************************************************************************)
(* Types::*::compare.  Each returns [ok, h]: the truth value and the heap  *)
(* after the mutations the comparison made.                                *)
(***************************************************************************)
\* Types::Type::compare (the primitives, GenType and UnknownType inherit it)
BaseCompare(h, self, other) ==
    IF other = 0 THEN [ok |-> FALSE, h |-> h]
    ELSE IF h[other].dataType = "UNKNOWN"
         THEN [ok |-> TRUE,
               h |-> [h EXCEPT ![other].dataType = h[self].dataType]]
         ELSE [ok |-> h[self].dataType = h[other].dataType, h |-> h]

\* Types::TypeclassType::compare
TypeclassCompare(h, self, other) ==
    IF other = 0 THEN [ok |-> FALSE, h |-> h]
    ELSE [ok |-> /\ h[self].dataType = h[other].dataType
                 /\ h[self].ident = h[other].ident,
          h |-> h]

RECURSIVE TypeCompare(_, _, _)
RECURSIVE TupleLoop(_, _, _, _)
RECURSIVE FuncArgLoop(_, _, _, _)

\* Types::ListType::compare
ListCompare(h, self, other) ==
    IF other = 0 THEN [ok |-> FALSE, h |-> h]
    ELSE IF h[other].dataType = "UNKNOWN"
    THEN [ok |-> TRUE, h |-> [h EXCEPT ![other].dataType = h[self].dataType]]
    ELSE IF h[self].dataType = "UNKNOWN" /\ h[other].dataType = "LIST"
    THEN [ok |-> TRUE,
          h |-> [h EXCEPT ![self].listType = h[other].listType,
                          ![self].dataType = "LIST"]]
    ELSE IF h[self].dataType # h[other].dataType
    THEN [ok |-> FALSE, h |-> h]
    ELSE IF h[h[self].listType].dataType = "UNKNOWN"
    THEN [ok |-> TRUE, h |-> [h EXCEPT ![self].listType = h[other].listType]]
    ELSE TypeCompare(h, h[self].listType, h[other].listType)

\* the element loop of Types::TupleType::compare, from index i on
TupleLoop(h, self, other, i) ==
    IF i > Len(h[self].tupleTypes) THEN [ok |-> TRUE, h |-> h]
    ELSE LET type == h[self].tupleTypes[i]
             otherTupleElementType == h[other].tupleTypes[i]
         IN IF h[type].dataType = "UNKNOWN"
            THEN TupleLoop([h EXCEPT ![self].tupleTypes[i] = otherTupleElementType],
                           self, other, i + 1)
            ELSE LET c == TypeCompare(h, type, otherTupleElementType)
                 IN IF c.ok THEN TupleLoop(c.h, self, other, i + 1)
                    ELSE [ok |-> FALSE, h |-> c.h]

\* Types::TupleType::compare
TupleCompare(h, self, other) ==
    IF other = 0 THEN [ok |-> FALSE, h |-> h]
    ELSE IF h[self].dataType = "UNKNOWN" /\ h[other].dataType = "TUPLE"
    THEN [ok |-> TRUE,
          h |-> [h EXCEPT ![self].tupleTypes = h[other].tupleTypes,
                          ![self].dataType = "TUPLE"]]
    ELSE IF h[self].dataType # h[other].dataType
    THEN [ok |-> FALSE, h |-> h]
    ELSE IF Len(h[self].tupleTypes) # Len(h[other].tupleTypes)
    THEN [ok |-> FALSE, h |-> h]
    ELSE TupleLoop(h, self, other, 1)

\* the argument loop of Types::FuncType::compare, from index i on
FuncArgLoop(h, self, other, i) ==
    IF i > Len(h[self].argumentTypes) THEN [ok |-> TRUE, h |-> h]
    ELSE LET c == TypeCompare(h, h[self].argumentTypes[i], h[other].argumentTypes[i])
         IN IF c.ok THEN FuncArgLoop(c.h, self, other, i + 1)
            ELSE [ok |-> FALSE, h |-> c.h]

\* Types::FuncType::compare
FuncCompare(h, self, other) ==
    IF other = 0 THEN [ok |-> FALSE, h |-> h]
    ELSE IF h[self].dataType = "UNKNOWN" /\ h[other].dataType = "FUNC"
    THEN [ok |-> TRUE,
          h |-> [h EXCEPT ![self].genericTypes = h[other].genericTypes,
                          ![self].argumentTypes = h[other].argumentTypes,
                          ![self].returnType = h[other].returnType,
                          ![self].functionBody = h[other].functionBody,
                          ![self].hasInnerEnvironment = h[other].hasInnerEnvironment,
                          ![self].functionInnerEnvironment =
                                        h[other].functionInnerEnvironment,
                          ![self].dataType = "FUNC"]]
    ELSE IF h[self].dataType = "FUNC" /\ h[other].dataType = "FUNC"
    THEN IF Len(h[self].argumentTypes) # Len(h[other].argumentTypes)
         THEN [ok |-> FALSE, h |-> h]
         ELSE LET as == FuncArgLoop(h, self, other, 1)
              IN IF ~as.ok THEN as
                 ELSE TypeCompare(as.h, as.h[self].returnType, as.h[other].returnType)
    ELSE [ok |-> TRUE, h |-> h]

\* the virtual call type->compare(otherType)
TypeCompare(h, self, other) ==
    CASE h[self].cls = "ListType" -> ListCompare(h, self, other)
      [] h[self].cls = "TupleType" -> TupleCompare(h, self, other)
      [] h[self].cls = "FuncType" -> FuncCompare(h, self, other)
      [] h[self].cls = "TypeclassType" -> TypeclassCompare(h, self, other)
      [] OTHER -> BaseCompare(h, self, other)

\* TypeChecker::compare without the rebinding of an Unknown left pointer
compareKeepLeft(h, leftType, rightType) ==
    IF h[leftType].dataType = "UNKNOWN"
    THEN [ok |-> TRUE, h |-> h, l |-> leftType, r |-> rightType]
    ELSE IF h[rightType].dataType = "UNKNOWN"
    THEN [ok |-> TRUE, h |-> h, l |-> leftType, r |-> leftType]
    ELSE LET c == TypeCompare(h, leftType, rightType)
         IN [ok |-> c.ok, h |-> c.h, l |-> leftType, r |-> rightType]

\* TypeChecker::compare(leftType, rightType): both are references to
\* pointers; l and r are the pointers after the call.
compare(h, leftType, rightType) ==
    IF h[leftType].dataType = "UNKNOWN"
    THEN [ok |-> TRUE, h |-> h, l |-> rightType, r |-> rightType]
    ELSE IF h[rightType].dataType = "UNKNOWN"
    THEN [ok |-> TRUE, h |-> h, l |-> leftType, r |-> leftType]
    ELSE LET c == TypeCompare(h, leftType, rightType)
         IN [ok |-> c.ok, h |-> c.h, l |-> leftType, r |-> rightType]


(***************************************************************************)
(* Values (src/defs/values.hpp).  A machine state s carries the type heap  *)
(* th, the value heap vh, the static latch BuiltinImplementations::error   *)
(* (berr) with the message last printed through it (bmsg), and the static  *)
(* BuiltinImplementations::nullValue.  A bool is kept as 0 or 1.           *)
(***************************************************************************)
NewValue(cls, type) ==
    [cls |-> cls, type |-> type, data |-> 0, listData |-> <<>>,
     parameterNames |-> <<>>, functionBody |-> 0,
     functionBodyEnvironment |-> 0, isBuiltin |-> FALSE,
     builtinEnum |-> "BUILTINNUM", fields |-> 0]
IntValue(type, data) == [NewValue("IntValue", type) EXCEPT !.data = data]
BoolValue(type, data) == [NewValue("BoolValue", type) EXCEPT !.data = data]
NullValue(type) == NewValue("NullValue", type)
ListValue(type, listData) ==
    [NewValue("ListValue", type) EXCEPT !.listData = listData]
TypeclassValue(type, fields) ==
    [NewValue("TypeclassValue", type) EXCEPT !.fields = fields]
FunctionValue(type, parameterNames, functionBody, functionBodyEnvironment) ==
    [NewValue("FunctionValue", type) EXCEPT
        !.parameterNames = parameterNames,
        !.functionBody = functionBody,
        !.functionBodyEnvironment = functionBodyEnvironment]

\* std::make_shared of a type / of a value in machine state s
NewTy(s, obj) == [s |-> [s EXCEPT !.th = Append(@, obj)], id |-> Len(s.th) + 1]
NewVal(s, obj) == [s |-> [s EXCEPT !.vh = Append(@, obj)], id |-> Len(s.vh) + 1]

\* The conversion of an int to unsigned int.  A negative n becomes
\* 2^32 + n, which is above every int; it is kept here 2^31 lower, which
\* is still above every vector size and every index of the model and keeps
\* the order of the converted values.
ToUnsigned(n) == IF n >= 0 THEN n ELSE (2147483647 + n) + 1

\* the outcomes of std::vector::insert at a position past the end of an
\* empty vector, which is undefined: the process dies, or the call returns
\* with the element lost or stored
UBOutcomes == {"crash", "lost", "stored"}


\* what a built-in hands back: the state, the returned value, and whether
\* the process died inside it
Returned(s, ret) == [s |-> s, ret |-> ret, crash |-> FALSE]
Crashed(s) == [s |-> s, ret |-> 0, crash |-> TRUE]
\* printError(...); return nullValue.  BuiltinImplementations::printError
\* sets the built-ins' own static latch and returns; it neither throws nor
\* touches the interpreter's latch.
BuiltinError(s, errorMessage) ==
    Returned([s EXCEPT !.berr = TRUE, !.bmsg = errorMessage], s.nullValue)

\* BuiltinImplementations::getArgumentValue
getArgumentValue(index, functionValue, environment) ==
    environment[functionValue.parameterNames[index + 1]]

\* makeListType handing back the list it was given, holding the new data
makeListTypeShared(s, listValue, listData) ==
    Returned([s EXCEPT !.vh[listValue].listData = listData], listValue)

\* BuiltinImplementations::makeListType
makeListType(s, listValue, listData) ==
    LET t == NewTy(s, ListType(s.th[s.vh[listValue].type].listType))
        v == NewVal(t.s, ListValue(t.id, listData))
    IN Returned(v.s, v.id)

\* elementValue->type->compare(listValue's element type): [ok, s]
ElementCompare(s, elementValue, listValue) ==
    LET c == TypeCompare(s.th, s.vh[elementValue].type,
                         s.th[s.vh[listValue].type].listType)
    IN [ok |-> c.ok, s |-> [s EXCEPT !.th = c.h]]

\* std::vector insert / erase / assignment at a 0-based position
VecInsert(v, index, x) == SubSeq(v, 1, index) \o <<x>> \o SubSeq(v, index + 1, Len(v))
VecErase(v, index) == SubSeq(v, 1, index) \o SubSeq(v, index + 2, Len(v))
VecAssign(v, index, x) == [v EXCEPT ![index + 1] = x]

\* the data left by the undefined insert when the call returns
UBData(ub, elementValue) == IF ub = "stored" THEN <<elementValue>> ELSE <<>>

insertBuiltin(s, functionValue, environment, ub) ==
    LET listValue == getArgumentValue(0, functionValue, environment)
        elementValue == getArgumentValue(1, functionValue, environment)
        c == ElementCompare(s, elementValue, listValue)
        index == ToUnsigned(c.s.vh[getArgumentValue(2, functionValue, environment)].data)
        listData == c.s.vh[listValue].listData
    IN IF ~c.ok THEN BuiltinError(c.s, "Element type must match list type")
       ELSE IF listData # <<>> /\ index >= Len(listData) THEN BuiltinError(c.s, "Out of bounds list access")
       ELSE IF index > Len(listData)
            THEN IF ub = "crash" THEN Crashed(c.s)
                 ELSE makeListType(c.s, listValue, UBData(ub, elementValue))
       ELSE makeListType(c.s, listValue, VecInsert(listData, index, elementValue))

removeBuiltin(s, functionValue, environment) ==
    LET listValue == getArgumentValue(0, functionValue, environment)
        index == ToUnsigned(s.vh[getArgumentValue(1, functionValue, environment)].data)
        listData == s.vh[listValue].listData
    IN IF listData = <<>> THEN BuiltinError(s, "Cannot remove from empty list")
       ELSE IF index >= Len(listData) THEN BuiltinError(s, "Out of bounds list access")
       ELSE makeListType(s, listValue, VecErase(listData, index))

replaceBuiltin(s, functionValue, environment) ==
    LET listValue == getArgumentValue(0, functionValue, environment)
        index == ToUnsigned(s.vh[getArgumentValue(2, functionValue, environment)].data)
        listData == s.vh[listValue].listData
        elementValue == getArgumentValue(1, functionValue, environment)
        c == ElementCompare(s, elementValue, listValue)
    IN IF listData = <<>> THEN BuiltinError(s, "Cannot replace with element in empty list")
       ELSE IF index >= Len(listData) THEN BuiltinError(s, "Out of bounds list access")
       ELSE IF ~c.ok THEN BuiltinError(c.s, "Element type must match list type")
       ELSE makeListType(c.s, listValue, VecAssign(listData, index, elementValue))

pushFrontBuiltin(s, functionValue, environment) ==
    LET listValue == getArgumentValue(0, functionValue, environment)
        elementValue == getArgumentValue(1, functionValue, environment)
        c == ElementCompare(s, elementValue, listValue)
    IN IF ~c.ok THEN BuiltinError(c.s, "Element type must match list type")
       ELSE makeListType(c.s, listValue,
                         VecInsert(c.s.vh[listValue].listData, 0, elementValue))

pushBackBuiltin(s, functionValue, environment) ==
    LET listValue == getArgumentValue(0, functionValue, environment)
        elementValue == getArgumentValue(1, functionValue, environment)
        c == ElementCompare(s, elementValue, listValue)
        listData == c.s.vh[listValue].listData
    IN IF ~c.ok THEN BuiltinError(c.s, "Element type must match list type")
       ELSE makeListType(c.s, listValue,
                         VecInsert(listData, Len(listData), elementValue))

insertInPlaceBuiltin(s, functionValue, environment, ub) ==
    LET listValue == getArgumentValue(0, functionValue, environment)
        elementValue == getArgumentValue(1, functionValue, environment)
        c == ElementCompare(s, elementValue, listValue)
        index == ToUnsigned(c.s.vh[getArgumentValue(2, functionValue, environment)].data)
        listData == c.s.vh[listValue].listData
    IN IF ~c.ok THEN BuiltinError(c.s, "Element type must match list type")
       ELSE IF listData # <<>> /\ index >= Len(listData) THEN BuiltinError(c.s, "Out of bounds list access")
       ELSE IF index > Len(listData)
            THEN IF ub = "crash" THEN Crashed(c.s)
                 ELSE Returned([c.s EXCEPT !.vh[listValue].listData =
                                               UBData(ub, elementValue)],
                               listValue)
       ELSE Returned([c.s EXCEPT !.vh[listValue].listData =
                                     VecInsert(listData, index, elementValue)],
                     listValue)

removeInPlaceBuiltin(s, functionValue, environment) ==
    LET listValue == getArgumentValue(0, functionValue, environment)
        index == ToUnsigned(s.vh[getArgumentValue(1, functionValue, environment)].data)
        listData == s.vh[listValue].listData
    IN IF listData = <<>> THEN BuiltinError(s, "Cannot remove from empty list")
       ELSE IF index >= Len(listData) THEN BuiltinError(s, "Out of bounds list access")
       ELSE Returned([s EXCEPT !.vh[listValue].listData = VecErase(listData, index)],
                     listValue)

replaceInPlaceBuiltin(s, functionValue, environment) ==
    LET listValue == getArgumentValue(0, functionValue, environment)
        index == ToUnsigned(s.vh[getArgumentValue(2, functionValue, environment)].data)
        listData == s.vh[listValue].listData
        elementValue == getArgumentValue(1, functionValue, environment)
        c == ElementCompare(s, elementValue, listValue)
    IN IF listData = <<>> THEN BuiltinError(s, "Cannot replace with element in empty list")
       ELSE IF index >= Len(listData) THEN BuiltinError(s, "Out of bounds list access")
       ELSE IF ~c.ok THEN BuiltinError(c.s, "Element type must match list type")
       ELSE Returned([c.s EXCEPT !.vh[listValue].listData =
                                     VecAssign(listData, index, elementValue)],
                     listValue)

headBuiltin(s, functionValue, environment) ==
    LET listValue == getArgumentValue(0, functionValue, environment)
        listData == s.vh[listValue].listData
    IN IF listData = <<>> THEN BuiltinError(s, "Cannot get sublist from empty list")
       ELSE makeListType(s, listValue, SubSeq(listData, 1, Len(listData) - 1))

tailBuiltin(s, functionValue, environment) ==
    LET listValue == getArgumentValue(0, functionValue, environment)
        listData == s.vh[listValue].listData
    IN IF listData = <<>> THEN BuiltinError(s, "Cannot get sublist from empty list")
       ELSE makeListType(s, listValue, VecErase(listData, 0))

\* listValue1->type->compare(listValue2->type): [ok, s]
ListTypesCompare(s, listValue1, listValue2) ==
    LET c == TypeCompare(s.th, s.vh[listValue1].type, s.vh[listValue2].type)
    IN [ok |-> c.ok, s |-> [s EXCEPT !.th = c.h]]

combineBuiltin(s, functionValue, environment) ==
    LET listValue1 == getArgumentValue(0, functionValue, environment)
        listValue2 == getArgumentValue(1, functionValue, environment)
        c == ListTypesCompare(s, listValue1, listValue2)
    IN IF ~c.ok THEN BuiltinError(c.s, "List types must match")
       ELSE makeListType(c.s, listValue1,
                         c.s.vh[listValue1].listData \o c.s.vh[listValue2].listData)

\* append adding the second list's elements before it compares the types
appendBeforeCompare(s, functionValue, environment) ==
    LET listValue1 == getArgumentValue(0, functionValue, environment)
        listValue2 == getArgumentValue(1, functionValue, environment)
        added == [s EXCEPT !.vh[listValue1].listData =
                               @ \o s.vh[listValue2].listData]
        c == ListTypesCompare(added, listValue1, listValue2)
    IN IF ~c.ok THEN BuiltinError(c.s, "List types must match")
       ELSE Returned(c.s, listValue1)

appendBuiltin(s, functionValue, environment) ==
    LET listValue1 == getArgumentValue(0, functionValue, environment)
        listValue2 == getArgumentValue(1, functionValue, environment)
        c == ListTypesCompare(s, listValue1, listValue2)
    IN IF ~c.ok THEN BuiltinError(c.s, "List types must match")
       ELSE Returned([c.s EXCEPT !.vh[listValue1].listData =
                                     @ \o c.s.vh[listValue2].listData],
                     listValue1)

\* range leaving out the element at the end index
rangeBuiltinExclusive(s, functionValue, environment) ==
    LET listValue == getArgumentValue(0, functionValue, environment)
        listData == s.vh[listValue].listData
        startIndex == ToUnsigned(s.vh[getArgumentValue(1, functionValue, environment)].data)
        endIndex == ToUnsigned(s.vh[getArgumentValue(2, functionValue, environment)].data)
    IN IF listData = <<>> THEN BuiltinError(s, "Cannot get sublist from empty list")
       ELSE IF \/ startIndex > endIndex
               \/ startIndex >= Len(listData)
               \/ endIndex >= Len(listData)
            THEN BuiltinError(s, "Invalid range")
       ELSE makeListType(s, listValue, SubSeq(listData, startIndex + 1, endIndex))

rangeBuiltin(s, functionValue, environment) ==
    LET listValue == getArgumentValue(0, functionValue, environment)
        startValue == getArgumentValue(1, functionValue, environment)
        endValue == getArgumentValue(2, functionValue, environment)
        listData == s.vh[listValue].listData
        t1 == NewTy(s, IntType)
        c1 == TypeCompare(t1.s.th, s.vh[startValue].type, t1.id)
        s1 == [t1.s EXCEPT !.th = c1.h]
        t2 == NewTy(s1, IntType)
        c2 == TypeCompare(t2.s.th, s.vh[endValue].type, t2.id)
        s2 == [t2.s EXCEPT !.th = c2.h]
        startIndex == ToUnsigned(s.vh[startValue].data)
        endIndex == ToUnsigned(s.vh[endValue].data)
    IN IF listData = <<>> THEN BuiltinError(s, "Cannot get sublist from empty list")
       ELSE IF ~c1.ok THEN BuiltinError(s1, "Start range index must be integer type")
       ELSE IF ~c2.ok THEN BuiltinError(s2, "End range index must be integer type")
       ELSE IF \/ startIndex > endIndex
               \/ startIndex >= Len(listData)
               \/ endIndex >= Len(listData)
            THEN BuiltinError(s2, "Invalid range")
       ELSE makeListType(s2, listValue, SubSeq(listData, startIndex + 1, endIndex + 1))

\* BuiltinImplementations::runBuiltin, for the list built-ins that build or
\* change a list (the built-ins that only read or print are left out)
runBuiltin(s, functionValue, environment, ub) ==
    CASE functionValue.builtinEnum = "INSERT" -> insertBuiltin(s, functionValue, environment, ub)
      [] functionValue.builtinEnum = "REMOVE" -> removeBuiltin(s, functionValue, environment)
      [] functionValue.builtinEnum = "REPLACE" -> replaceBuiltin(s, functionValue, environment)
      [] functionValue.builtinEnum = "PUSHFRONT" -> pushFrontBuiltin(s, functionValue, environment)
      [] functionValue.builtinEnum = "PUSHBACK" -> pushBackBuiltin(s, functionValue, environment)
      [] functionValue.builtinEnum = "INSERTINPLACE" ->
            insertInPlaceBuiltin(s, functionValue, environment, ub)
      [] functionValue.builtinEnum = "REMOVEINPLACE" ->
            removeInPlaceBuiltin(s, functionValue, environment)
      [] functionValue.builtinEnum = "REPLACEINPLACE" ->
            replaceInPlaceBuiltin(s, functionValue, environment)
      [] functionValue.builtinEnum = "HEAD" -> headBuiltin(s, functionValue, environment)
      [] functionValue.builtinEnum = "TAIL" -> tailBuiltin(s, functionValue, environment)
      [] functionValue.builtinEnum = "COMBINE" -> combineBuiltin(s, functionValue, environment)
      [] functionValue.builtinEnum = "APPEND" -> appendBuiltin(s, functionValue, environment)
      [] functionValue.builtinEnum = "RANGE" -> rangeBuiltin(s, functionValue, environment)
      [] OTHER -> Returned(s, s.nullValue)

(***************************************************************************)
(* SpecBuiltin: one call of a list built-in, as interpretApplication makes *)
(* it: the argument values are bound to the built-in's parameter names in  *)
(* the callee environment and runBuiltin is dispatched on the enum.        *)
(***************************************************************************)
\* value terms, from which the arguments are drawn
VInt(n) == [v |-> "int", data |-> n]
VBool(b) == [v |-> "bool", data |-> b]
VList(elem, items) == [v |-> "list", elem |-> elem, items |-> items]

\* Interpreter::Interpreter and the statics of BuiltinImplementations
NewMachine ==
    [th |-> <<NullType>>, vh |-> <<NullValue(1)>>,
     berr |-> FALSE, bmsg |-> "", nullValue |-> 1]

\* the value of a literal or of a list definition, every one a new object
\* with a type object of its own
RECURSIVE AllocValue(_, _)
RECURSIVE AllocValues(_, _, _)
AllocValues(s, terms, acc) ==
    IF terms = <<>> THEN [s |-> s, ids |-> acc]
    ELSE LET one == AllocValue(s, Head(terms))
         IN AllocValues(one.s, Tail(terms), Append(acc, one.id))
AllocValue(s, t) ==
    CASE t.v = "int" ->
            LET ty == NewTy(s, IntType) IN NewVal(ty.s, IntValue(ty.id, t.data))
      [] t.v = "bool" ->
            LET ty == NewTy(s, BoolType) IN NewVal(ty.s, BoolValue(ty.id, t.data))
      [] t.v = "list" ->
            LET items == AllocValues(s, t.items, <<>>)
                elem == AllocType(items.s.th, t.elem)
                ty == NewTy([items.s EXCEPT !.th = elem.h], ListType(elem.id))
            IN NewVal(ty.s, ListValue(ty.id, items.ids))

IntLists ==
    UNION {{VList(TInt, xs) : xs \in [1..k -> {VInt(7), VInt(8)}]} : k \in 0..MaxLen}
BoolLists == {VList(TBool, <<>>), VList(TBool, <<VBool(1)>>)}
Elements == {VInt(9), VBool(1)}
Indices == {VInt(i) : i \in -1..(MaxLen + 1)}

CopyingBuiltins == {"INSERT", "REMOVE", "REPLACE", "PUSHFRONT", "PUSHBACK",
                    "HEAD", "TAIL", "COMBINE", "RANGE"}
InPlaceBuiltins == {"INSERTINPLACE", "REMOVEINPLACE", "REPLACEINPLACE"}
ListBuiltins == CopyingBuiltins \cup InPlaceBuiltins \cup {"APPEND"}

\* the argument lists a built-in is called with
BuiltinArguments(builtinEnum) ==
    CASE builtinEnum \in {"INSERT", "REPLACE", "INSERTINPLACE", "REPLACEINPLACE"} ->
            {<<l, e, i>> : l \in IntLists, e \in Elements, i \in Indices}
      [] builtinEnum \in {"REMOVE", "REMOVEINPLACE"} ->
            {<<l, i>> : l \in IntLists, i \in Indices}
      [] builtinEnum \in {"PUSHFRONT", "PUSHBACK"} ->
            {<<l, e>> : l \in IntLists, e \in Elements}
      [] builtinEnum \in {"COMBINE", "APPEND"} ->
            {<<l, m>> : l \in IntLists, m \in IntLists \cup BoolLists}
      [] builtinEnum = "RANGE" ->
            {<<l, i, j>> : l \in IntLists, i \in Indices, j \in Indices}
      [] builtinEnum \in {"HEAD", "TAIL"} -> {<<l>> : l \in IntLists}

BuiltinCalls ==
    UNION {{[builtinEnum |-> b, arguments |-> a] : a \in BuiltinArguments(b)}
           : b \in ListBuiltins}

\* the function value of a built-in (interpretProgram) and the callee
\* environment with the evaluated arguments bound to the parameter names
BuiltinFunctionValue(builtinEnum, arity) ==
    [FunctionValue(0, SubSeq(<<"p0", "p1", "p2">>, 1, arity), 0, 0) EXCEPT
        !.isBuiltin = TRUE, !.builtinEnum = builtinEnum]

BindArguments(call) ==
    LET vs == AllocValues(NewMachine, call.arguments, <<>>)
        functionValue == BuiltinFunctionValue(call.builtinEnum, Len(call.arguments))
    IN [s |-> vs.s,
        functionValue |-> functionValue,
        environment |-> [n \in {functionValue.parameterNames[i] :
                                    i \in 1..Len(vs.ids)} |->
                            vs.ids[CHOOSE i \in 1..Len(vs.ids) :
                                        functionValue.parameterNames[i] = n]]]

\* how the process of main ended, if it has: "exit" with the code given to
\* exit or returned by main, "abort" after std::terminate, "signal" when
\* killed by a signal
Status(kind, code) == [kind |-> kind, code |-> code]

\* the objects of the phases as their constructors leave them, less the
\* token stream and the tree they are given
NoLexer == [tokenStream |-> <<>>, inQuotes |-> FALSE, error |-> FALSE]
NoParser == [tokenStream |-> <<>>, currentTokenIndex |-> 1, error |-> FALSE,
             log |-> <<>>, dummy_count |-> 0, eh |-> <<>>, th |-> <<>>,
             thrown |-> FALSE]
NoTypeChecker == [eh |-> <<>>, th |-> <<>>, error |-> FALSE, log |-> <<>>,
                  thrown |-> FALSE, checking |-> {}, exhausted |-> FALSE,
                  killed |-> FALSE, ub |-> "differs"]
NoInterpreter ==
    [eh |-> <<>>, th |-> <<>>, vh |-> <<>>, nh |-> <<>>, error |-> FALSE,
     thrown |-> FALSE, killed |-> FALSE, log |-> <<>>, arith |-> <<>>,
     returns |-> <<>>, errorNullValue |-> 0, callStack |-> <<>>,
     stackTrace |-> <<>>, nullRead |-> "signal"]

MainIdle ==
    /\ pc = "idle"
    /\ sourceStream = <<>>
    /\ lexer = NoLexer
    /\ parser = NoParser
    /\ tree = 0
    /\ typeChecker = NoTypeChecker
    /\ interpreter = NoInterpreter
    /\ status = Status("running", -1)
    /\ started = <<>>

NoImports == [pc |-> "idle", files |-> <<>>, tokenStream |-> <<>>,
              tokenIndex |-> 0, importing |-> FALSE, error |-> FALSE,
              failed |-> FALSE]
ImportsIdle == imports = NoImports

BuiltinIdle ==
    /\ bPc = "idle"
    /\ bIn = [builtinEnum |-> "BUILTINNUM", arguments |-> <<>>]
    /\ bPre = [s |-> NewMachine]
    /\ bOut = Returned(NewMachine, 0)

TypesIdle ==
    /\ tyPc = "idle"
    /\ tyIn = <<TUnknown, TUnknown>>
    /\ tyHeap = <<>>
    /\ tyOut = [ok |-> FALSE, l |-> 0, r |-> 0, l0 |-> 0, r0 |-> 0]

BuiltinInit ==
    /\ bPc = "ready"
    /\ bIn \in BuiltinCalls
    /\ bPre = BindArguments(bIn)
    /\ bOut = Returned(NewMachine, 0)
    /\ TypesIdle
    /\ MainIdle
    /\ ImportsIdle

\* interpretApplication's call of runBuiltin on the bound arguments
BuiltinCall ==
    /\ bPc = "ready"
    /\ \E ub \in UBOutcomes :
          /\ bOut' = runBuiltin(bPre.s, bPre.functionValue, bPre.environment, ub)
          /\ bPc' = IF bOut'.crash THEN "crashed" ELSE "returned"
    /\ UNCHANGED <<bIn, bPre, tyVars, mainVars, impVars>>

SpecBuiltin == BuiltinInit /\ [][BuiltinCall]_vars

\* what a call came to: the process died, an error was reported with the
\* Null sentinel returned, or a list holding a sequence of element data
BuiltinOutcome(r) ==
    IF r.crash THEN [kind |-> "crash", msg |-> "", data |-> <<>>]
    ELSE IF r.ret = r.s.nullValue
    THEN [kind |-> "error", msg |-> r.s.bmsg, data |-> <<>>]
    ELSE [kind |-> "value", msg |-> "",
          data |-> [i \in 1..Len(r.s.vh[r.ret].listData) |->
                        r.s.vh[r.s.vh[r.ret].listData[i]].data]]

CopyingVariant(builtinEnum) ==
    CASE builtinEnum = "INSERTINPLACE" -> "INSERT"
      [] builtinEnum = "REMOVEINPLACE" -> "REMOVE"
      [] builtinEnum = "REPLACEINPLACE" -> "REPLACE"
      [] OTHER -> builtinEnum

\* C5: insert, remove, replace, pushFront, pushBack, head, tail, combine and
\* range leave every value that existed at the call as it was (so the
\* contents of every list passed are unchanged), on success and on every
\* error path, and on success the list returned is a new list value.
C5_CopyingBuiltinsKeepTheirArguments ==
    (bPc \in {"returned", "crashed"} /\ bIn.builtinEnum \in CopyingBuiltins) =>
        /\ \A v \in 1..Len(bPre.s.vh) : bOut.s.vh[v] = bPre.s.vh[v]
        /\ (~bOut.crash /\ bOut.ret # bOut.s.nullValue) =>
                /\ bOut.ret > Len(bPre.s.vh)
                /\ bOut.s.vh[bOut.ret].cls = "ListValue"

\* replace succeeded on a two-element list: the list returned holds the new
\* element and the list passed still holds the old one
C5_Witness ==
    /\ bPc = "returned"
    /\ bIn.builtinEnum = "REPLACE"
    /\ bIn.arguments[1] = VList(TInt, <<VInt(7), VInt(8)>>)
    /\ BuiltinOutcome(bOut).data = <<7, 9>>
    /\ LET listValue == getArgumentValue(0, bPre.functionValue, bPre.environment)
       IN /\ bOut.ret # listValue
          /\ bOut.s.vh[listValue].listData = bPre.s.vh[listValue].listData

\* C6: insertInPlace, removeInPlace and replaceInPlace come to the outcome
\* that insert, remove and replace come to on the same arguments (the same
\* element sequence, or the same error with the Null sentinel), and on
\* success the value returned is the list value that was passed.
C6_InPlaceAsCopying ==
    (bPc \in {"returned", "crashed"} /\ bIn.builtinEnum \in InPlaceBuiltins) =>
        /\ \A ub \in UBOutcomes :
              BuiltinOutcome(runBuiltin(bPre.s,
                                        [bPre.functionValue EXCEPT
                                            !.builtinEnum = CopyingVariant(@)],
                                        bPre.environment, ub))
                  = BuiltinOutcome(bOut)
        /\ BuiltinOutcome(bOut).kind = "value" =>
              bOut.ret = getArgumentValue(0, bPre.functionValue, bPre.environment)

\* the arguments of the call as the numbers and element data they denote
ArgData(k) == bIn.arguments[k].data
ArgItems(k) == [i \in 1..Len(bIn.arguments[k].items) |-> bIn.arguments[k].items[i].data]

\* C17: insert(L, e, i) with an element of the list's element type succeeds
\* exactly when L is empty or 0 <= i < |L|, and then returns a list of
\* length |L|+1 whose element at position i is e and whose other elements
\* are those of L in their order; for any other index it reports an
\* out-of-bounds error and returns Null.
C17_InsertContract ==
    (/\ bPc \in {"returned", "crashed"}
     /\ bIn.builtinEnum \in {"INSERT", "INSERTINPLACE"}
     /\ bIn.arguments[2].v = "int") =>
        LET L == ArgItems(1)
            e == ArgData(2)
            i == ArgData(3)
            out == BuiltinOutcome(bOut)
        IN IF L = <<>> \/ (0 <= i /\ i < Len(L))
           THEN /\ out.kind = "value"
                /\ Len(out.data) = Len(L) + 1
                /\ i + 1 \in DOMAIN out.data
                /\ out.data[i + 1] = e
                /\ \A k \in 1..Len(L) :
                      out.data[IF k <= i THEN k ELSE k + 1] = L[k]
           ELSE /\ out.kind = "error"
                /\ out.msg = "Out of bounds list access"
                /\ bOut.s.berr

\* C18: range(L, s, e) returns exactly the elements L[s..e] inclusive, in
\* order (e - s + 1 elements), when 0 <= s <= e < |L|, and reports an error
\* returning Null in every other case: s > e, s >= |L|, e >= |L|, s < 0,
\* e < 0 (and hence for every empty L).
C18_RangeContract ==
    (bPc \in {"returned", "crashed"} /\ bIn.builtinEnum = "RANGE") =>
        LET L == ArgItems(1)
            start == ArgData(2)
            end == ArgData(3)
            out == BuiltinOutcome(bOut)
        IN IF 0 <= start /\ start <= end /\ end < Len(L)
           THEN /\ out.kind = "value"
                /\ Len(out.data) = end - start + 1
                /\ \A k \in 1..(end - start + 1) : out.data[k] = L[start + k]
           ELSE /\ out.kind = "error"
                /\ bOut.s.berr
                /\ bOut.ret = bOut.s.nullValue

\* range(L, 0, 1) on a two-element list returned both elements
C18_Witness ==
    /\ bPc = "returned"
    /\ bIn.builtinEnum = "RANGE"
    /\ ArgItems(1) = <<7, 8>>
    /\ ArgData(2) = 0 /\ ArgData(3) = 1
    /\ BuiltinOutcome(bOut).data = <<7, 8>>

\* the errors a list built-in looks for in the call drawn: an element that
\* is not of the list's element type (two lists of different types), an
\* empty list where the operation needs an element, an index outside
\* 0..|L|-1 of a list that is not empty
ElementMismatch ==
    \/ /\ bIn.builtinEnum \in {"INSERT", "INSERTINPLACE", "REPLACE",
                                "REPLACEINPLACE", "PUSHFRONT", "PUSHBACK"}
       /\ bIn.arguments[2].v # "int"
    \/ /\ bIn.builtinEnum \in {"COMBINE", "APPEND"}
       /\ bIn.arguments[2].elem # bIn.arguments[1].elem
EmptyOperand ==
    /\ bIn.builtinEnum \in {"REMOVE", "REMOVEINPLACE", "REPLACE", "REPLACEINPLACE",
                             "HEAD", "TAIL", "RANGE"}
    /\ ArgItems(1) = <<>>
IndexOutOfRange ==
    /\ ArgItems(1) # <<>>
    /\ \/ /\ bIn.builtinEnum \in {"INSERT", "INSERTINPLACE", "REPLACE",
                                   "REPLACEINPLACE"}
          /\ ~(0 <= ArgData(3) /\ ArgData(3) < Len(ArgItems(1)))
       \/ /\ bIn.builtinEnum \in {"REMOVE", "REMOVEINPLACE"}
          /\ ~(0 <= ArgData(2) /\ ArgData(2) < Len(ArgItems(1)))
       \/ /\ bIn.builtinEnum = "RANGE"
          /\ \E k \in {2, 3} : ~(0 <= ArgData(k) /\ ArgData(k) < Len(ArgItems(1)))

RECURSIVE TermsOfSize(_)
RECURSIVE TermSeqsOfSize(_)
\* the sequences of terms whose sizes add up to m
TermSeqsOfSize(m) ==
    IF m = 0 THEN {<<>>}
    ELSE UNION {{<<t>> \o s : t \in TermsOfSize(k), s \in TermSeqsOfSize(m - k)}
                : k \in 1..m}
\* the terms of exactly n nodes
TermsOfSize(n) ==
    IF n = 1 THEN {TInt, TBool, TNull, TUnknown, TGen("T"), TGen("U"),
                   TClass("P"), TClass("Q"), TTuple(<<>>)}
    ELSE {TList(e) : e \in TermsOfSize(n - 1)}
         \cup {TTuple(es) : es \in TermSeqsOfSize(n - 1)}
         \cup UNION {{TFunc(as, r) : as \in TermSeqsOfSize(n - 1 - k),
                                     r \in TermsOfSize(k)} : k \in 1..(n - 1)}

\* the pairs compared: every term with itself, and every two terms whose
\* sizes add up to at most MaxTypeSize + 2
TypePairs ==
    UNION {{<<a, a>> : a \in TermsOfSize(n)} : n \in 1..MaxTypeSize}
    \cup UNION {UNION {TermsOfSize(n) \X TermsOfSize(m)
                       : m \in 1..(IF MaxTypeSize + 2 - n < MaxTypeSize
                                   THEN MaxTypeSize + 2 - n ELSE MaxTypeSize)}
                : n \in 1..MaxTypeSize}

TyInit ==
    /\ tyPc = "pick"
    /\ tyIn \in TypePairs
    /\ tyHeap = <<>>
    /\ tyOut = [ok |-> FALSE, l |-> 0, r |-> 0, l0 |-> 0, r0 |-> 0,
                swapped |-> FALSE]
    /\ BuiltinIdle
    /\ MainIdle
    /\ ImportsIdle

\* The type objects are built from the terms and compared.  Two equal terms
\* are either two structurally equal objects or one object passed twice.
\* swapped is the truth value of the comparison of new objects of the same
\* two terms with the operands exchanged.
TyCompare ==
    /\ tyPc = "pick"
    /\ \E alias \in {FALSE} \cup {tyIn[1] = tyIn[2]} :
          LET a == AllocType(<<>>, tyIn[1])
              b == IF alias THEN a ELSE AllocType(a.h, tyIn[2])
              c == compare(b.h, a.id, b.id)
              a2 == AllocType(c.h, tyIn[1])
              b2 == IF alias THEN a2 ELSE AllocType(a2.h, tyIn[2])
          IN /\ tyHeap' = c.h
             /\ tyOut' = [ok |-> c.ok, l |-> c.l, r |-> c.r,
                          l0 |-> a.id, r0 |-> b.id,
                          swapped |-> compare(b2.h, b2.id, a2.id).ok]
    /\ tyPc' = "compared"
    /\ UNCHANGED <<tyIn, bVars, mainVars, impVars>>

SpecTypes == TyInit /\ [][TyCompare]_vars


\* a term without an Unknown at any depth
RECURSIVE Concrete(_)
Concrete(t) ==
    CASE t.k = "UNKNOWN" -> FALSE
      [] t.k = "LIST" -> Concrete(t.elem)
      [] t.k = "TUPLE" -> \A i \in 1..Len(t.elems) : Concrete(t.elems[i])
      [] t.k = "FUNC" -> /\ \A i \in 1..Len(t.args) : Concrete(t.args[i])
                         /\ Concrete(t.ret)
      [] OTHER -> TRUE

\* Structural equivalence of two non-Unknown types: equal tags and
\* recursively equivalent children; an Unknown is a hole that any type fills,
\* and two Gen types are taken as equivalent by their tag alone.
RECURSIVE Equivalent(_, _)
Equivalent(a, b) ==
    \/ a.k = "UNKNOWN"
    \/ b.k = "UNKNOWN"
    \/ /\ a.k = b.k
       /\ CASE a.k = "LIST" -> Equivalent(a.elem, b.elem)
            [] a.k = "TUPLE" ->
                  /\ Len(a.elems) = Len(b.elems)
                  /\ \A i \in 1..Len(a.elems) : Equivalent(a.elems[i], b.elems[i])
            [] a.k = "FUNC" ->
                  /\ Len(a.args) = Len(b.args)
                  /\ \A i \in 1..Len(a.args) : Equivalent(a.args[i], b.args[i])
                  /\ Equivalent(a.ret, b.ret)
            [] a.k = "TYPECLASS" -> a.name = b.name
            [] OTHER -> TRUE

\* C9: TypeChecker::compare(t, t) is true for every concrete type t, at any
\* nesting of List, Tuple and Func; compare(u, t) with u an Unknown and t
\* concrete is true and leaves u's pointer bound to t's object, so that u
\* reads as t.
C9_CompareReflexiveAndFillsUnknown ==
    tyPc = "compared" =>
        /\ (tyIn[1] = tyIn[2] /\ Concrete(tyIn[1])) => tyOut.ok
        /\ (tyIn[1] = TUnknown /\ Concrete(tyIn[2])) =>
                /\ tyOut.ok
                /\ tyOut.l = tyOut.r0
                /\ ReadType(tyHeap, tyOut.l) = tyIn[2]

\* a nested concrete type was compared with an Unknown on the left
C9_Witness ==
    /\ tyPc = "compared"
    /\ tyIn[1] = TUnknown
    /\ tyIn[2] = TTuple(<<TList(TBool)>>)
    /\ tyOut.ok
    /\ ReadType(tyHeap, tyOut.l) = tyIn[2]

\* C10: when neither type is Unknown, the comparison succeeds only if the
\* two are structurally equivalent (equal tags, equivalent children); in
\* particular a Func type never compares equal to a non-Func type.
C10_CompareOnlyEquivalent ==
    (tyPc = "compared" /\ tyIn[1].k # "UNKNOWN" /\ tyIn[2].k # "UNKNOWN"
        /\ tyOut.ok) => Equivalent(tyIn[1], tyIn[2])

\* C11: two Generic types of different identifiers do not compare equal:
\* the comparison of Generic("T") with Generic("U") fails.
C11_DistinctGenericsDiffer ==
    (tyPc = "compared" /\ tyIn[1].k = "GEN" /\ tyIn[2].k = "GEN"
        /\ tyIn[1].name # tyIn[2].name) => ~tyOut.ok


(***************************************************************************)
(* The lexer (src/core/lexer/lexer.cpp).  A source text is kept as the     *)
(* sequence of its words, the pieces that whitespace and the one-character *)
(* delimiters cut it into; what the lexer decides about a word by looking  *)
(* at its characters (isValidCharacter, isValue, IDENT_REGEX) is looked up *)
(* in the tables below.                                                    *)
(***************************************************************************)
\* std::stoi on the words that are all digits (Lexer::isValue)
stoi == ("0" :> 0) @@ ("1" :> 1) @@ ("2" :> 2) @@ ("3" :> 3)
\* the words that match Lexer::IDENT_REGEX
Identifiers == {"x", "xs", "y", "foo", "f", "g", "T", "U", "head", "P"}
\* the words made of a character that Lexer::isValidCharacter rejects
InvalidCharacters == {"@", "$"}

Token(type, text) == [type |-> type, text |-> text]

\* Lexer::makeToken; l is the lexer: tokenStream, inQuotes and the latch
makeToken(l, tokenString) ==
    LET isDelimiter == tokenString \in
            {"[", "]", "(", ")", "{", "}", "=", "->", ":", ";", ",", "'", "\"",
             ".", "+", "-", "/", "*", "%", "<", ">", "!", "&&", "||", "==",
             "!=", "<=", ">="}
        isKeyword == tokenString \in
            {"if", "else", "func", "typeclass", "type", "val", "List", "Tuple",
             "true", "false", "int", "bool", "char", "null", "string", "case",
             "match", "any", "import", ".."}
        inQuotes == IF tokenString \in {"'", "\""} THEN ~l.inQuotes ELSE l.inQuotes
        type == IF isDelimiter THEN "DELIM"
                ELSE IF isKeyword THEN "KEYWORD"
                ELSE IF tokenString \in DOMAIN stoi THEN "VAL"
                ELSE IF tokenString \in Identifiers \/ inQuotes THEN "IDENT"
                ELSE "ERROR"
    IN [l EXCEPT !.tokenStream = Append(@, Token(type, tokenString)),
                 !.inQuotes = inQuotes,
                 !.error = @ \/ type = "ERROR"]

\* a statement sequence "x = e; rest": rest is written as a function of x on
\* the one-element domain {e}, and Only gives its value there
Only(f) == f[CHOOSE x \in DOMAIN f : TRUE]

\* Lexer::makeTokenStream: a word of an invalid character is reported by
\* filterWhitespace and dropped, every other word goes through makeToken.
\* The loop over the text is run on its first half and then, from the lexer
\* that leaves, on its second half.
RECURSIVE makeTokenStream(_, _)
makeTokenStream(l, words) ==
    IF words = <<>> THEN l
    ELSE IF Len(words) = 1
    THEN IF Head(words) \in InvalidCharacters /\ ~l.inQuotes
         THEN [l EXCEPT !.error = TRUE]
         ELSE makeToken(l, Head(words))
    ELSE Only([half \in {makeTokenStream(l, SubSeq(words, 1, Len(words) \div 2))} |->
             makeTokenStream(half, SubSeq(words, Len(words) \div 2 + 1,
                                          Len(words)))])

(***************************************************************************)
(* Expressions (includes/defs/expressions.hpp).  The parser p carries the  *)
(* token stream, the index of the current token, its latch, the messages   *)
(* it printed, and the heaps of the expressions (eh) and types (th) built. *)
(***************************************************************************)
Expression(token, expType, returnType) ==
    [token |-> token, expType |-> expType, returnType |-> returnType,
     data |-> 0, op |-> "NONE", leftSide |-> 0, rightSide |-> 0,
     ident |-> "", fieldIdent |-> "", valueType |-> 0, value |-> 0,
     afterLet |-> 0, condition |-> 0, ifBranch |-> 0, elseBranch |-> 0,
     arguments |-> <<>>, genericReplacementTypes |-> <<>>, values |-> <<>>,
     functions |-> <<>>, body |-> 0, fields |-> <<>>, cases |-> <<>>,
     name |-> "", genericParameters |-> <<>>, parameters |-> <<>>,
     functionBody |-> 0, isBuiltin |-> FALSE, builtinEnum |-> "BUILTINNUM"]

\* std::make_shared of an expression
NewExp(p, obj) == [p |-> [p EXCEPT !.eh = Append(@, obj)], e |-> Len(p.eh) + 1]

inBounds(p) == p.currentTokenIndex <= Len(p.tokenStream)
currentToken(p) == p.tokenStream[p.currentTokenIndex]
advance(p) == [p EXCEPT !.currentTokenIndex = @ + 1]

\* Parser::printError: sets the latch and prints
ParserPrintError(p, errorString) ==
    [p EXCEPT !.error = TRUE, !.log = Append(@, errorString)]

\* the ERROR(...) macro alone: prints, and leaves the latch as it is
ParserERROR(p, errorString) == [p EXCEPT !.log = Append(@, errorString)]

\* Parser::match: [ok, p]
match(p, tokenType, text) ==
    IF inBounds(p) /\ currentToken(p).type = tokenType /\ currentToken(p).text = text
    THEN [ok |-> TRUE, p |-> advance(p)]
    ELSE [ok |-> FALSE, p |-> p]

\* Parser::skip
skip(p, text) ==
    advance(IF inBounds(p) /\ currentToken(p).text # text
            THEN ParserPrintError(p, "Unexpected character")
            ELSE p)

\* Parser::getEscapedCharacter: [p, c]; the character is kept as the text
\* that denotes it, the character 0 as ""
getEscapedCharacter(p, escapeSequence) ==
    IF escapeSequence \in {"\\?", "\\\\", "\\b", "\\n", "\\r", "\\t", "\\s"}
    THEN [p |-> p, c |-> escapeSequence]
    ELSE IF escapeSequence \in {"\\q", "\\a"}
    THEN [p |-> ParserERROR(p, "Bad escape sequence"), c |-> ""]
    ELSE [p |-> p, c |-> escapeSequence]


RECURSIVE parseType(_, _)
\* the loop "while (match(DELIM, ",")) types.push_back(parseType(...))"
RECURSIVE parseTypeLoop(_, _, _)
parseTypeLoop(p, genericParameterList, types) ==
    IF match(p, "DELIM", ",").ok
    THEN Only([t \in {parseType(advance(p), genericParameterList)} |->
             parseTypeLoop(t.p, genericParameterList, Append(types, t.t))])
    ELSE [p |-> p, types |-> types]

\* Parser::parseType: [p, t]
parseType(p, genericParameterList) ==
    IF inBounds(p) /\ currentToken(p).type = "KEYWORD"
                   /\ currentToken(p).text \notin {"List", "Tuple"}
    THEN LET typeString == currentToken(p).text
             named == advance(p)
         IN IF typeString \notin {"int", "bool", "char", "string", "null", "type"}
            THEN Only([unknown \in {NewTy(ParserERROR(p, "Unexpected type"),
                                          UnknownType)} |->
                     [p |-> unknown.s, t |-> unknown.id]])
            ELSE
            Only([type \in {CASE typeString = "int" -> NewTy(p, IntType)
                              [] typeString = "bool" -> NewTy(p, BoolType)
                              [] typeString = "char" -> NewTy(p, CharType)
                              [] typeString = "string" ->
                                   NewTy(p, NewType("StringType", "STRING"))
                              [] typeString = "null" -> NewTy(p, NullType)
                              [] typeString = "type" ->
                                   NewTy(named, TypeclassType(currentToken(named).text,
                                                              <<>>))} |->
            Only([m \in {match(advance(type.s), "DELIM", "->")} |->
                IF ~m.ok THEN [p |-> m.p, t |-> type.id]
                ELSE
                Only([ret \in {parseType(m.p, genericParameterList)} |->
                Only([func \in {NewTy(ret.p, FuncType(genericParameterList,
                                                      <<type.id>>, ret.t))} |->
                    [p |-> func.s, t |-> func.id]])])])])
    ELSE IF match(p, "KEYWORD", "List").ok
    THEN Only([listDataType \in {parseType(skip(advance(p), "["),
                                           genericParameterList)} |->
         Only([list \in {NewTy(skip(listDataType.p, "]"),
                               ListType(listDataType.t))} |->
             [p |-> list.s, t |-> list.id]])])
    ELSE IF match(p, "KEYWORD", "Tuple").ok
    THEN Only([first \in {parseType(skip(advance(p), "["),
                                    genericParameterList)} |->
         Only([rest \in {parseTypeLoop(first.p, genericParameterList,
                                       <<first.t>>)} |->
         Only([tuple \in {NewTy(skip(rest.p, "]"), TupleType(rest.types))} |->
             [p |-> tuple.s, t |-> tuple.id]])])])
    ELSE IF match(p, "DELIM", "(").ok
    THEN Only([first \in {parseType(advance(p), genericParameterList)} |->
         Only([rest \in {parseTypeLoop(first.p, genericParameterList,
                                       <<first.t>>)} |->
         Only([ret \in {parseType(skip(skip(rest.p, ")"), "->"),
                                  genericParameterList)} |->
         Only([func \in {NewTy(ret.p, FuncType(genericParameterList,
                                               rest.types, ret.t))} |->
             [p |-> func.s, t |-> func.id]])])])])
    ELSE LET parameterName == currentToken(p).text
         IN IF \E i \in 1..Len(genericParameterList) :
                    p.th[genericParameterList[i]].identifier = parameterName
            THEN Only([gen \in {NewTy(p, GenType(parameterName))} |->
                     [p |-> advance(gen.s), t |-> gen.id]])
            ELSE Only([unknown \in {NewTy(ParserERROR(p, "Undefined generic type"),
                                          UnknownType)} |->
                     [p |-> unknown.s, t |-> unknown.id]])

\* Operator (its source is not part of the repository's files at hand): the
\* binary operators with their precedence, after the language specification
Operators ==
    ("||" :> [op |-> "OR", precedence |-> 0])
    @@ ("&&" :> [op |-> "AND", precedence |-> 1])
    @@ ("==" :> [op |-> "EQ", precedence |-> 2])
    @@ ("!=" :> [op |-> "NOTEQ", precedence |-> 2])
    @@ ("<" :> [op |-> "LST", precedence |-> 3])
    @@ (">" :> [op |-> "GRT", precedence |-> 3])
    @@ ("<=" :> [op |-> "LSTEQ", precedence |-> 3])
    @@ (">=" :> [op |-> "GRTEQ", precedence |-> 3])
    @@ ("+" :> [op |-> "PLUS", precedence |-> 4])
    @@ ("-" :> [op |-> "MINUS", precedence |-> 4])
    @@ ("*" :> [op |-> "TIMES", precedence |-> 5])
    @@ ("/" :> [op |-> "DIV", precedence |-> 5])
    @@ ("%" :> [op |-> "MOD", precedence |-> 5])

\* type->compare(other) for every other in turn, up to the first failure
RECURSIVE CompareAll(_, _, _)
CompareAll(h, type, others) ==
    IF others = <<>> THEN [ok |-> TRUE, h |-> h]
    ELSE LET c == TypeCompare(h, type, Head(others))
         IN IF c.ok THEN CompareAll(c.h, type, Tail(others)) ELSE c

RECURSIVE parseExpression(_)
RECURSIVE parseSimpleExpression(_)
RECURSIVE parseSimpleExpressions(_, _)
RECURSIVE parseBranch(_)
RECURSIVE parseList(_)
RECURSIVE parseMatch(_)
RECURSIVE parseTypeclass(_)
RECURSIVE parseCase(_)
RECURSIVE parseCases(_, _)
RECURSIVE parseUtightMin(_, _)
RECURSIVE parseBinary(_, _, _)
RECURSIVE parseUtight(_)
RECURSIVE parseTight(_)
RECURSIVE parseArguments(_)
RECURSIVE parseApplication(_)
RECURSIVE parseApplicationOuter(_, _)
RECURSIVE parseAtom(_)
RECURSIVE parseProgram(_)

\* Parser::parseExpression: [p, e]
parseExpression(p) ==
    IF ~inBounds(p) THEN NewExp(p, Expression(Token("DELIM", ""), "END", 0))
    ELSE IF match(p, "KEYWORD", "val").ok
    THEN LET named == advance(p)
             token == currentToken(named)
         IN Only([valueType \in {parseType(skip(advance(named), ":"), <<>>)} |->
            Only([valueExpression \in
                      {parseSimpleExpression(skip(valueType.p, "="))} |->
            Only([afterExpression \in
                      {parseExpression(skip(valueExpression.p, ";"))} |->
                NewExp(afterExpression.p,
                       [Expression(token, "LET",
                                   afterExpression.p.eh[afterExpression.e].returnType)
                            EXCEPT !.ident = token.text,
                                   !.valueType = valueType.t,
                                   !.value = valueExpression.e,
                                   !.afterLet = afterExpression.e])])])])
    ELSE LET token == currentToken(p)
         IN Only([simpleExpression \in {parseSimpleExpression(p)} |->
            IF ~match(simpleExpression.p, "DELIM", ";").ok THEN simpleExpression
            ELSE
            Only([expression \in {parseExpression(advance(simpleExpression.p))} |->
            Only([unknown \in {NewTy([expression.p EXCEPT !.dummy_count = @ + 1],
                                     UnknownType)} |->
                NewExp(unknown.s,
                       [Expression(token, "LET",
                                   expression.p.eh[expression.e].returnType)
                            EXCEPT !.ident = <<"dummy$0", "dummy$1", "dummy$2",
                                               "dummy$3">>[expression.p.dummy_count + 1],
                                   !.valueType = unknown.id,
                                   !.value = simpleExpression.e,
                                   !.afterLet = expression.e])])])])

\* Parser::parseSimpleExpression, for the expressions without Tuple
parseSimpleExpression(p) ==
    IF match(p, "KEYWORD", "if").ok THEN parseBranch(advance(p))
    ELSE IF match(p, "KEYWORD", "List").ok THEN parseList(advance(p))
    ELSE IF match(p, "KEYWORD", "match").ok THEN parseMatch(advance(p))
    ELSE IF match(p, "KEYWORD", "type").ok THEN parseTypeclass(advance(p))
    ELSE IF inBounds(p) /\ currentToken(p) = Token("KEYWORD", "func")
    THEN parseProgram(p)
    ELSE parseUtightMin(p, 0)

\* the loop "while (match(DELIM, ",")) es.push_back(parseSimpleExpression())"
parseSimpleExpressions(p, es) ==
    IF match(p, "DELIM", ",").ok
    THEN Only([e \in {parseSimpleExpression(advance(p))} |->
             parseSimpleExpressions(e.p, Append(es, e.e))])
    ELSE [p |-> p, es |-> es]

\* Parser::parseBranch
parseBranch(p) ==
    LET token == currentToken(p)
    IN Only([condition \in {parseSimpleExpression(skip(p, "("))} |->
       Only([trueBranch \in {parseSimpleExpression(skip(condition.p, ")"))} |->
       Only([elseBranch \in {IF match(trueBranch.p, "KEYWORD", "else").ok
                             THEN parseSimpleExpression(advance(trueBranch.p))
                             ELSE NewExp(trueBranch.p,
                                         Expression(token, "LIT", 0))} |->
           NewExp(elseBranch.p,
                  [Expression(token, "BRANCH",
                              elseBranch.p.eh[trueBranch.e].returnType)
                       EXCEPT !.condition = condition.e,
                              !.ifBranch = trueBranch.e,
                              !.elseBranch = elseBranch.e])])])])

\* Parser::parseList
parseList(p) ==
    LET token == currentToken(p)
    IN Only([opened \in {skip(p, "{")} |->
       IF ~(inBounds(opened) /\ currentToken(opened).text # "}")
       THEN Only([t \in {NewTy(opened, NullType)} |->
                NewExp(skip(t.s, "}"), Expression(token, "LIST_DEF", t.id))])
       ELSE
       Only([first \in {parseSimpleExpression(opened)} |->
       Only([listValues \in {parseSimpleExpressions(first.p, <<first.e>>)} |->
       Only([c \in {CompareAll(listValues.p.th,
                               listValues.p.eh[listValues.es[1]].returnType,
                               [i \in 1..Len(listValues.es) |->
                                   listValues.p.eh[listValues.es[i]].returnType])} |->
           IF ~c.ok
           THEN Only([nullType \in {NewTy([listValues.p EXCEPT !.th = c.h],
                                          NullType)} |->
                    NewExp(ParserERROR(nullType.s, "List types must match"),
                           [Expression(token, "LIST_DEF", nullType.id)
                                EXCEPT !.values = listValues.es])])
           ELSE Only([type \in {NewTy([listValues.p EXCEPT !.th = c.h],
                                      ListType(listValues.p.eh[listValues.es[1]]
                                                   .returnType))} |->
                    NewExp(skip(type.s, "}"),
                           [Expression(token, "LIST_DEF", type.id)
                                EXCEPT !.values = listValues.es])])])])])])

\* the loop "while (match(KEYWORD, "case")) cases.push_back(parseCase())"
parseCases(p, cases) ==
    IF match(p, "KEYWORD", "case").ok
    THEN Only([case \in {parseCase(advance(p))} |->
             parseCases(case.p, Append(cases, case.e))])
    ELSE [p |-> p, es |-> cases]

\* Parser::parseMatch; Match::Match reads cases.at(0), which throws
\* std::out_of_range for a match without a case
parseMatch(p) ==
    LET token == currentToken(p)
        named == skip(p, "(")
    IN Only([cases \in {parseCases(skip(skip(advance(named), ")"), "{"), <<>>)} |->
       Only([closed \in {skip(cases.p, "}")} |->
           IF cases.es = <<>>
           THEN NewExp([closed EXCEPT !.thrown = TRUE],
                       Expression(token, "MATCH", 0))
           ELSE NewExp(closed,
                       [Expression(token, "MATCH",
                                   closed.eh[cases.es[1]].returnType)
                            EXCEPT !.ident = currentToken(named).text,
                                   !.cases = cases.es])])])

\* Parser::parseCase
parseCase(p) ==
    LET token == currentToken(p)
    IN Only([ident \in
                 {IF match(p, "KEYWORD", "any").ok
                  THEN Only([type \in {NewTy(advance(p), NullType)} |->
                           NewExp(type.s, [Expression(token, "REF", type.id)
                                               EXCEPT !.ident = "$any"])])
                  ELSE parseAtom(p)} |->
       Only([block \in {parseSimpleExpression(skip(skip(ident.p, "="), "{"))} |->
           NewExp(skip(skip(block.p, "}"), ";"),
                  [Expression(token, "CASE", block.p.eh[block.e].returnType)
                       EXCEPT !.ident = ident.e, !.body = block.e])])])

\* Parser::parseUtight(int min)
parseUtightMin(p, min) ==
    Only([leftSide \in {parseUtight(p)} |->
        parseBinary(leftSide.p, leftSide.e, min)])

\* the loop of Parser::parseUtight(int min)
parseBinary(p, leftSide, min) ==
    IF inBounds(p) /\ currentToken(p).text \in DOMAIN Operators
                   /\ Operators[currentToken(p).text].precedence >= min
    THEN LET token == currentToken(p)
             operator == Operators[token.text]
         IN Only([rightSide \in {parseUtightMin(advance(p),
                                                operator.precedence + 1)} |->
            Only([primitive \in
                      {NewExp(rightSide.p,
                              [Expression(token, "PRIM",
                                          rightSide.p.eh[leftSide].returnType)
                                   EXCEPT !.op = operator.op,
                                          !.leftSide = leftSide,
                                          !.rightSide = rightSide.e])} |->
                parseBinary(primitive.p, primitive.e, min)])])
    ELSE [p |-> p, e |-> leftSide]

\* Parser::parseUtight()
parseUtight(p) ==
    LET token == currentToken(p)
        op == CASE match(p, "DELIM", "+").ok -> "PLUS"
                [] match(p, "DELIM", "-").ok -> "MINUS"
                [] match(p, "DELIM", "!").ok -> "NOT"
                [] OTHER -> "NONE"
    IN IF op = "NONE" THEN parseTight(p)
       ELSE
       Only([rightSide \in {parseTight(advance(p))} |->
       Only([type \in {NewTy(rightSide.p,
                             IF op = "NOT" THEN BoolType ELSE IntType)} |->
       Only([literalType \in {NewTy(type.s,
                                    IF op = "NOT" THEN BoolType ELSE IntType)} |->
       Only([literal \in {NewExp(literalType.s,
                                 Expression(token, "LIT", literalType.id))} |->
           NewExp(literal.p,
                  [Expression(token, "PRIM", type.id)
                       EXCEPT !.op = op,
                              !.leftSide = literal.e,
                              !.rightSide = rightSide.e])])])])])

\* Parser::parseTight
parseTight(p) ==
    IF match(p, "DELIM", "{").ok
    THEN Only([exp \in {parseExpression(advance(p))} |->
             [p |-> skip(exp.p, "}"), e |-> exp.e]])
    ELSE parseApplication(p)

\* the arguments between "(" and ")" of an application: [p, es]
parseArguments(p) ==
    IF inBounds(p) /\ currentToken(p).text # ")"
    THEN Only([first \in {parseSimpleExpression(p)} |->
             parseSimpleExpressions(first.p, <<first.e>>)])
    ELSE parseSimpleExpressions(p, <<>>)

\* Parser::parseApplication
parseApplication(p) ==
    LET token == currentToken(p)
    IN Only([ident \in {parseAtom(p)} |->
       Only([generics \in
                 {IF match(ident.p, "DELIM", "[").ok
                  THEN Only([firstType \in {parseType(advance(ident.p), <<>>)} |->
                       Only([types \in {parseTypeLoop(firstType.p, <<>>,
                                                      <<firstType.t>>)} |->
                           [p |-> skip(types.p, "]"), types |-> types.types]])])
                  ELSE [p |-> ident.p, types |-> <<>>]} |->
           IF ~match(generics.p, "DELIM", "(").ok
           THEN [p |-> generics.p, e |-> ident.e]
           ELSE
           Only([arguments \in {parseArguments(advance(generics.p))} |->
           Only([type \in {NewTy(skip(arguments.p, ")"), NullType)} |->
           Only([app \in {NewExp(type.s,
                                 [Expression(token, "APP", type.id)
                                      EXCEPT !.ident = ident.e,
                                             !.arguments = arguments.es,
                                             !.genericReplacementTypes =
                                                 generics.types])} |->
               parseApplicationOuter(app.p, app.e)])])])])])

\* the loop "while (match(DELIM, "("))" of Parser::parseApplication
parseApplicationOuter(p, app) ==
    IF ~match(p, "DELIM", "(").ok THEN [p |-> p, e |-> app]
    ELSE
    LET token == currentToken(advance(p))
    IN Only([argumentsOuter \in {parseArguments(advance(p))} |->
       Only([type \in {NewTy(skip(argumentsOuter.p, ")"), NullType)} |->
       Only([outer \in {NewExp(type.s,
                               [Expression(token, "APP", type.id)
                                    EXCEPT !.ident = app,
                                           !.arguments = argumentsOuter.es])} |->
           parseApplicationOuter(outer.p, outer.e)])])])

\* Parser::parseAtom, for the literals other than strings
parseAtom(p) ==
    IF match(p, "DELIM", "(").ok
    THEN Only([exp \in {parseSimpleExpression(advance(p))} |->
             [p |-> skip(exp.p, ")"), e |-> exp.e]])
    ELSE IF ~inBounds(p) THEN NewExp(p, Expression(Token("DELIM", ""), "END", 0))
    ELSE LET token == currentToken(p)
         IN IF token.type = "IDENT"
            THEN Only([dot \in {match(advance(p), "DELIM", ".")} |->
                 Only([type \in {NewTy(IF dot.ok THEN advance(dot.p) ELSE dot.p,
                                       UnknownType)} |->
                     NewExp(type.s,
                            [Expression(token, "REF", type.id)
                                 EXCEPT !.ident = token.text,
                                        !.fieldIdent = IF dot.ok
                                                       THEN currentToken(dot.p).text
                                                       ELSE ""])])])
            ELSE IF token.type = "KEYWORD" /\ token.text \in {"true", "false"}
            THEN Only([type \in {NewTy(advance(p), BoolType)} |->
                     NewExp(type.s, [Expression(token, "LIT", type.id)
                                         EXCEPT !.data = IF token.text = "true"
                                                         THEN 1 ELSE 0])])
            ELSE IF match(p, "KEYWORD", "null").ok
            THEN NewExp(advance(p), Expression(token, "LIT", 0))
            ELSE IF token.text \in DOMAIN stoi
            THEN Only([type \in {NewTy(advance(p), IntType)} |->
                     NewExp(type.s, [Expression(token, "LIT", type.id)
                                         EXCEPT !.data = stoi[token.text]])])
            ELSE IF match(p, "DELIM", "'").ok
            THEN LET quote == advance(p)
                 IN Only([c \in {getEscapedCharacter(quote,
                                                     currentToken(quote).text)} |->
                    Only([type \in {NewTy(c.p, CharType)} |->
                    Only([lit \in {NewExp(type.s,
                                          [Expression(currentToken(quote), "LIT",
                                                      type.id)
                                               EXCEPT !.data = c.c])} |->
                        [p |-> skip(advance(lit.p), "'"), e |-> lit.e]])])])
            ELSE NewExp(ParserPrintError(p, "Unexpected character"),
                        Expression(Token("DELIM", ""), "END", 0))

\* Parser::parseArg
parseArg(p, genericParameterList) ==
    LET token == currentToken(p)
    IN Only([argumentType \in {parseType(skip(advance(p), ":"),
                                         genericParameterList)} |->
           NewExp(argumentType.p,
                  [Expression(token, "ARG", argumentType.t)
                       EXCEPT !.name = token.text])])

\* the loop "while (match(DELIM, ",")) argumentTypes.push_back(parseArg(...))"
RECURSIVE parseArgs(_, _, _)
parseArgs(p, genericParameterList, es) ==
    IF match(p, "DELIM", ",").ok
    THEN Only([e \in {parseArg(advance(p), genericParameterList)} |->
             parseArgs(e.p, genericParameterList, Append(es, e.e))])
    ELSE [p |-> p, es |-> es]

\* the loop of Parser::parseTypeclass over the fields: a field whose name
\* was seen before is reported; [p, fieldTypes]
RECURSIVE fieldTypesOf(_, _, _)
fieldTypesOf(p, fields, fieldTypes) ==
    IF fields = <<>> THEN [p |-> p, fieldTypes |-> fieldTypes]
    ELSE LET field == p.eh[Head(fields)]
         IN fieldTypesOf(IF \E i \in 1..Len(fieldTypes) :
                                fieldTypes[i].first = field.name
                         THEN ParserPrintError(p, "has already been declared")
                         ELSE p,
                         Tail(fields),
                         Append(fieldTypes, [first |-> field.name,
                                             second |-> field.returnType]))

\* Parser::parseTypeclass
parseTypeclass(p) ==
    LET token == currentToken(p)
        opened == skip(advance(p), "{")
    IN Only([fields \in
                 {IF inBounds(opened) /\ currentToken(opened).type # "DELIM"
                                     /\ currentToken(opened).text # "}"
                  THEN Only([first \in {parseArg(opened, <<>>)} |->
                           parseArgs(first.p, <<>>, <<first.e>>)])
                  ELSE [p |-> opened, es |-> <<>>]} |->
       Only([fieldTypes \in {fieldTypesOf(skip(fields.p, "}"), fields.es, <<>>)} |->
       Only([type \in {NewTy(fieldTypes.p,
                             TypeclassType(token.text, fieldTypes.fieldTypes))} |->
           NewExp(type.s, [Expression(token, "TYPECLASS", type.id)
                               EXCEPT !.ident = token.text,
                                      !.fields = fields.es])])])])

\* the loop over the generic parameters after the first, of Parser::parseFunc
RECURSIVE parseGenericTypes(_, _)
parseGenericTypes(p, genericTypes) ==
    IF match(p, "DELIM", ",").ok
    THEN Only([genericType2 \in
                   {NewTy(advance(p), GenType(currentToken(advance(p)).text))} |->
             parseGenericTypes(advance(genericType2.s),
                               Append(genericTypes, genericType2.id))])
    ELSE [p |-> p, genericTypes |-> genericTypes]

\* Parser::parseFunc, after the keyword func
parseFunc(p) ==
    LET token == currentToken(p)
        named == advance(p)
    IN Only([generics \in
                 {IF match(named, "DELIM", "[").ok
                  THEN Only([genericType \in
                                 {NewTy(advance(named),
                                        GenType(currentToken(advance(named)).text))} |->
                       Only([rest \in {parseGenericTypes(advance(genericType.s),
                                                         <<genericType.id>>)} |->
                           [p |-> skip(rest.p, "]"),
                            genericTypes |-> rest.genericTypes]])])
                  ELSE [p |-> named, genericTypes |-> <<>>]} |->
       Only([opened \in {skip(generics.p, "(")} |->
       Only([argumentTypes \in
                 {IF inBounds(opened) /\ currentToken(opened).type # "DELIM"
                                     /\ currentToken(opened).text # ")"
                  THEN Only([first \in {parseArg(opened, generics.genericTypes)} |->
                           parseArgs(first.p, generics.genericTypes, <<first.e>>)])
                  ELSE [p |-> opened, es |-> <<>>]} |->
       Only([functionReturnType \in
                 {parseType(skip(skip(argumentTypes.p, ")"), "->"),
                            generics.genericTypes)} |->
       Only([functionBody \in
                 {parseSimpleExpression(skip(functionReturnType.p, "="))} |->
       Only([functionType \in
                 {NewTy(functionBody.p,
                        [FuncType(generics.genericTypes,
                                  [i \in 1..Len(argumentTypes.es) |->
                                      functionBody.p.eh[argumentTypes.es[i]].returnType],
                                  functionReturnType.t)
                             EXCEPT !.functionBody = functionBody.e,
                                    !.argumentNames =
                                        [i \in 1..Len(argumentTypes.es) |->
                                            functionBody.p.eh[argumentTypes.es[i]].name]])} |->
           NewExp(skip(functionType.s, ";"),
                  [Expression(token, "FUN_DEF", functionType.id)
                       EXCEPT !.name = token.text,
                              !.genericParameters = generics.genericTypes,
                              !.parameters = argumentTypes.es,
                              !.functionBody = functionBody.e])])])])])])])

\* the loop "while (match(KEYWORD, "func")) functions.push_back(parseFunc())"
RECURSIVE parseFunctions(_, _)
parseFunctions(p, functions) ==
    IF match(p, "KEYWORD", "func").ok
    THEN Only([function \in {parseFunc(advance(p))} |->
             parseFunctions(function.p, Append(functions, function.e))])
    ELSE [p |-> p, functions |-> functions]

\* Parser::parseProgram
parseProgram(p) ==
    LET token == currentToken(p)
    IN Only([functions \in {parseFunctions(p, <<>>)} |->
       Only([body \in {parseExpression(functions.p)} |->
           NewExp(body.p, [Expression(token, "PROG", body.p.eh[body.e].returnType)
                               EXCEPT !.functions = functions.functions,
                                      !.body = body.e])])])

\* Parser::Parser and Parser::makeTree (a token stream without imports)
makeTree(tokenStream) ==
    parseProgram([NoParser EXCEPT !.tokenStream = tokenStream])

(***************************************************************************)
(* SpecImports: Parser::preprocessImports (unnamed/part_002, parser.cpp)   *)
(* one token of its for loop at a time, on a token stream and a set of     *)
(* files drawn below.  A file is named by the words of its path and holds  *)
(* the words of its text; a file that is not there and a file that is      *)
(* empty are both read as the empty text.  tokenStream.at throws           *)
(* std::out_of_range past the end, which nothing catches: the process is   *)
(* terminated.  error is the latch of the parser, which main reads after   *)
(* makeTree; failed records that the expansion of an import failed.        *)
(***************************************************************************)
MaxTokens == 8

\* Lexer::readFile on sourceFileName + ".bnt"
readFile(files, sourceFileName) ==
    IF sourceFileName \in DOMAIN files THEN files[sourceFileName] ELSE <<>>

\* the loop "while (tokenStream.at(tokenIndex).text == "/")" of
\* Parser::parseImport: [thrown, tokenStream, sourceFileName]
RECURSIVE parseImportPath(_, _, _)
parseImportPath(tokenStream, tokenIndex, sourceFileName) ==
    IF tokenIndex >= Len(tokenStream)
    THEN [thrown |-> TRUE, tokenStream |-> tokenStream,
          sourceFileName |-> sourceFileName]
    ELSE IF tokenStream[tokenIndex + 1].text # "/"
    THEN [thrown |-> FALSE, tokenStream |-> tokenStream,
          sourceFileName |-> sourceFileName]
    ELSE IF tokenIndex >= Len(VecErase(tokenStream, tokenIndex))
    THEN [thrown |-> TRUE, tokenStream |-> VecErase(tokenStream, tokenIndex),
          sourceFileName |-> Append(sourceFileName, "/")]
    ELSE parseImportPath(
             VecErase(VecErase(tokenStream, tokenIndex), tokenIndex), tokenIndex,
             sourceFileName \o <<"/", VecErase(tokenStream, tokenIndex)
                                          [tokenIndex + 1].text>>)

\* the local "auto lexer = Lexer(std::move(stream))" of Parser::parseImport
\* after its makeTokenStream
importLexer(stream) ==
    makeTokenStream(NoLexer, IF stream[Len(stream)] # ";"
                             THEN Append(stream, ";") ELSE stream)

\* Parser::parseImport: [thrown, tokenStream, newStream, failed]; failed
\* records that readFile could not open the file or that the lexer of the
\* file set its latch
parseImport(files, tokenStream, tokenIndex) ==
    Only([erased \in {VecErase(tokenStream, tokenIndex)} |->
        IF tokenIndex >= Len(erased)
        THEN [thrown |-> TRUE, tokenStream |-> erased, newStream |-> <<>>,
              failed |-> FALSE]
        ELSE
        Only([path \in {parseImportPath(VecErase(erased, tokenIndex), tokenIndex,
                                        <<erased[tokenIndex + 1].text>>)} |->
        Only([stream \in {readFile(files, path.sourceFileName)} |->
            [thrown |-> path.thrown,
             tokenStream |-> path.tokenStream,
             newStream |->
                 IF path.thrown \/ stream = <<>> THEN <<>>
                 ELSE importLexer(stream).tokenStream,
             failed |->
                 /\ ~path.thrown
                 /\ \/ path.sourceFileName \notin DOMAIN files
                    \/ stream # <<>> /\ importLexer(stream).error]])])])

\* the texts of the tokens and of the files drawn
ImportWords == {"import", "x", "y", ";", "1"}
ImportStreams ==
    UNION {[1..n -> ImportWords] : n \in 0..3}
    \cup {<<"import", "x", "/", "y", ";">>, <<"import", "x", "/">>,
          <<"import", "x", "/", "y">>, <<"1", ";", "import", "y", ";", "1">>}
FileTexts ==
    {<<>>, <<"1">>, <<"1", ";">>, <<"import", "x">>, <<"import", "y", ";">>,
     <<"1", "@">>}
FileSystems ==
    {(<<"x">> :> x) @@ (<<"y">> :> y) @@ (<<"x", "/", "y">> :> xy) :
         x \in FileTexts, y \in FileTexts, xy \in {<<>>, <<"import", "y">>}}

ImportsInit ==
    /\ \E words \in ImportStreams, files \in FileSystems :
          imports = [pc |-> "scan", files |-> files,
                     tokenStream |-> makeTokenStream(NoLexer, words).tokenStream,
                     tokenIndex |-> 0, importing |-> FALSE, error |-> FALSE,
                     failed |-> FALSE]
    /\ TypesIdle
    /\ BuiltinIdle
    /\ MainIdle

\* the body of the for loop on a token "import".  A token stream that would
\* grow beyond MaxTokens is not followed further.
ImportToken ==
    /\ imports.pc = "scan"
    /\ imports.tokenIndex < Len(imports.tokenStream)
    /\ imports.tokenStream[imports.tokenIndex + 1].text = "import"
    /\ \E r \in {parseImport(imports.files, imports.tokenStream,
                             imports.tokenIndex)} :
          /\ Len(r.tokenStream) + Len(r.newStream) <= MaxTokens
          /\ imports' =
                IF r.thrown
                THEN [imports EXCEPT !.pc = "terminated", !.importing = TRUE,
                                     !.tokenStream = r.tokenStream]
                ELSE [imports EXCEPT
                         !.importing = TRUE,
                         !.failed = @ \/ r.failed,
                         !.tokenStream =
                             SubSeq(r.tokenStream, 1, imports.tokenIndex)
                             \o r.newStream
                             \o SubSeq(r.tokenStream, imports.tokenIndex + 1,
                                       Len(r.tokenStream)),
                         !.tokenIndex = @ + 1]
    /\ UNCHANGED <<tyVars, bVars, mainVars>>

\* the body of the for loop on any other token
OtherToken ==
    /\ imports.pc = "scan"
    /\ imports.tokenIndex < Len(imports.tokenStream)
    /\ imports.tokenStream[imports.tokenIndex + 1].text # "import"
    /\ imports' = [imports EXCEPT !.tokenIndex = @ + 1]
    /\ UNCHANGED <<tyVars, bVars, mainVars>>

\* the end of the for loop with importing set: "while (importing)" starts
\* the next scan
NextScan ==
    /\ imports.pc = "scan"
    /\ imports.tokenIndex >= Len(imports.tokenStream)
    /\ imports.importing
    /\ imports' = [imports EXCEPT !.importing = FALSE, !.tokenIndex = 0]
    /\ UNCHANGED <<tyVars, bVars, mainVars>>

\* the end of the for loop with importing clear: preprocessImports returns
ImportsDone ==
    /\ imports.pc = "scan"
    /\ imports.tokenIndex >= Len(imports.tokenStream)
    /\ ~imports.importing
    /\ imports' = [imports EXCEPT !.pc = "returned"]
    /\ UNCHANGED <<tyVars, bVars, mainVars>>

ImportsNext == ImportToken \/ OtherToken \/ NextScan \/ ImportsDone

\* the loop keeps running as long as it can
SpecImports == ImportsInit /\ [][ImportsNext]_vars /\ WF_vars(ImportsNext)

\* C12: for every token stream and every finite set of importable files,
\* files that import each other or themselves included, preprocessImports
\* eventually returns, and when it has returned no token with the text
\* "import" is left in the token stream.
C12_ImportsReachFixedPoint ==
    /\ <>(imports.pc = "returned")
    /\ [](imports.pc = "returned" =>
             \A i \in 1..Len(imports.tokenStream) :
                 imports.tokenStream[i].text # "import")


(***************************************************************************)
(* The type checker (src/core/typeChecker/typeChecker.cpp).  The checker c *)
(* carries the heaps of expressions and types, its latch and the messages  *)
(* it printed.  An environment is a map from names to types, copied at     *)
(* every Let.  expectedType is a reference to a pointer in the code: each  *)
(* eval takes the pointer and returns [c, e, x], the expression returned   *)
(* and the pointer as the callee left it, which the caller stores back.    *)
(***************************************************************************)
\* TypeChecker::printError and TypeChecker::printMismatchError
TypeCheckerPrintError(c, errorMessage) ==
    [c EXCEPT !.error = TRUE, !.log = Append(@, errorMessage)]

\* Types::isPrimitiveType
isPrimitiveType(h, type) ==
    h[type].dataType \in {"INT", "CHAR", "STRING", "BOOL", "GEN"}

\* TypeChecker::addName and Interpreter::addName, on the map itself
addName(environment, name, x) ==
    [n \in DOMAIN environment \cup {name} |->
        IF n = name THEN x ELSE environment[n]]

\* std::map::erase of a name
eraseName(environment, name) ==
    [n \in DOMAIN environment \ {name} |-> environment[n]]

\* BuiltinDefinitions::isBuiltin and getBuiltin (builtinDefinitions.cpp is
\* not among the sources at hand): the names of the list built-ins of the
\* language specification, with the enum values runBuiltin dispatches on
getBuiltin ==
    ("insert" :> "INSERT") @@ ("remove" :> "REMOVE") @@ ("replace" :> "REPLACE")
    @@ ("pushFront" :> "PUSHFRONT") @@ ("pushBack" :> "PUSHBACK")
    @@ ("insertInPlace" :> "INSERTINPLACE") @@ ("removeInPlace" :> "REMOVEINPLACE")
    @@ ("replaceInPlace" :> "REPLACEINPLACE") @@ ("head" :> "HEAD")
    @@ ("tail" :> "TAIL") @@ ("combine" :> "COMBINE") @@ ("append" :> "APPEND")
    @@ ("range" :> "RANGE")
isBuiltin(name) == name \in DOMAIN getBuiltin

\* TypeChecker::copyArgumentType: [s, id]
copyArgumentType(c, argumentType) ==
    LET type == c.th[argumentType]
    IN NewTy(c, CASE type.dataType = "INT" -> IntType
                  [] type.dataType = "BOOL" -> BoolType
                  [] type.dataType = "CHAR" -> CharType
                  [] type.dataType = "STRING" -> NewType("StringType", "STRING")
                  [] type.dataType = "NULLVAL" -> NullType
                  [] type.dataType = "LIST" -> ListType(type.listType)
                  [] type.dataType = "TUPLE" -> TupleType(type.tupleTypes)
                  [] type.dataType = "FUNC" ->
                       [FuncType(type.genericTypes, type.argumentTypes,
                                 type.returnType)
                            EXCEPT !.argumentNames = type.argumentNames,
                                   !.functionBody = type.functionBody,
                                   !.hasInnerEnvironment = type.hasInnerEnvironment,
                                   !.functionInnerEnvironment =
                                       type.functionInnerEnvironment]
                  [] type.dataType = "TYPECLASS" ->
                       TypeclassType(type.ident, type.fieldTypes)
                  [] type.dataType = "GEN" -> GenType(type.identifier)
                  [] OTHER -> UnknownType)

\* TypeChecker::resolveType on the type heap h: [h, t], the heap with the
\* pointers inside the objects rebound, and the pointer returnType as the
\* call leaves it
RECURSIVE resolveType(_, _, _)
\* the loops "for (auto & type : types) resolveType(type, environment)"
RECURSIVE resolveTypes(_, _, _, _)
resolveTypes(h, types, environment, resolved) ==
    IF types = <<>> THEN [h |-> h, ts |-> resolved]
    ELSE Only([r \in {resolveType(h, Head(types), environment)} |->
             resolveTypes(r.h, Tail(types), environment, Append(resolved, r.t))])
resolveType(h, returnType, environment) ==
    CASE h[returnType].dataType = "GEN" ->
            [h |-> h,
             t |-> IF h[returnType].identifier \in DOMAIN environment
                   THEN environment[h[returnType].identifier]
                   ELSE returnType]
      [] h[returnType].dataType = "LIST" ->
            Only([r \in {resolveType(h, h[returnType].listType, environment)} |->
                [h |-> [r.h EXCEPT ![returnType].listType = r.t],
                 t |-> returnType]])
      [] h[returnType].dataType = "TUPLE" ->
            Only([r \in {resolveTypes(h, h[returnType].tupleTypes, environment,
                                      <<>>)} |->
                [h |-> [r.h EXCEPT ![returnType].tupleTypes = r.ts],
                 t |-> returnType]])
      [] h[returnType].dataType = "FUNC" ->
            Only([as \in {resolveTypes(h, h[returnType].argumentTypes,
                                       environment, <<>>)} |->
            Only([stored \in {[as.h EXCEPT ![returnType].argumentTypes = as.ts]} |->
            Only([r \in {resolveType(stored, stored[returnType].returnType,
                                     environment)} |->
                [h |-> [r.h EXCEPT ![returnType].returnType = r.t],
                 t |-> returnType]])])])
      [] OTHER -> [h |-> h, t |-> returnType]

ArithmeticOperators == {"TIMES", "DIV", "MOD"}
ComparisonOperators == {"EQ", "NOTEQ", "LST", "GRT", "LSTEQ", "GRTEQ"}

RECURSIVE eval(_, _, _, _)
RECURSIVE evalProgram(_, _, _, _)
RECURSIVE evalFunctionBody(_, _, _, _, _)
RECURSIVE evalMatch(_, _, _, _)

\* TypeChecker::evalLiteral
evalLiteral(c, expression, environment, expectedType) ==
    Only([cmp \in {compare(c.th, c.eh[expression].returnType, expectedType)} |->
        LET compared == [c EXCEPT !.th = cmp.h,
                                  !.eh[expression].returnType = cmp.l]
        IN [c |-> IF cmp.ok THEN compared
                  ELSE TypeCheckerPrintError(compared, "Mismatched type"),
            e |-> expression, x |-> cmp.r]])

\* TypeChecker::evalPrimitive.  Which of the operators Operator takes as
\* unary is not in the sources at hand: ! is, and the programs drawn use
\* neither + nor -.
evalPrimitive(c, expression, environment, expectedType) ==
    LET primitive == c.eh[expression]
    IN Only([temp \in {NewTy(c, CASE primitive.op \in {"NOT", "AND", "OR"} -> BoolType
                                  [] primitive.op \in ArithmeticOperators -> IntType
                                  [] primitive.op \in ComparisonOperators ->
                                       UnknownType)} |->
       Only([left \in {IF primitive.op = "NOT" THEN [c |-> temp.s, x |-> temp.id]
                       ELSE eval(temp.s, primitive.leftSide, environment,
                                 temp.id)} |->
       IF left.c.thrown THEN [c |-> left.c, e |-> expression, x |-> expectedType]
       ELSE
       Only([checked \in
                 {IF primitive.op \in ComparisonOperators
                     /\ ~isPrimitiveType(left.c.th,
                                         left.c.eh[primitive.leftSide].returnType)
                  THEN TypeCheckerPrintError(left.c,
                           "Binary operators can only be used on primitive types")
                  ELSE left.c} |->
       Only([right \in {eval(checked, primitive.rightSide, environment, left.x)} |->
       IF right.c.thrown THEN [c |-> right.c, e |-> expression, x |-> expectedType]
       ELSE
       Only([type \in {NewTy(right.c, IF primitive.op \in ArithmeticOperators
                                      THEN IntType ELSE BoolType)} |->
           [c |-> [type.s EXCEPT !.eh[expression].returnType = type.id],
            e |-> expression, x |-> expectedType]])])])])])

\* TypeChecker::evalLet with TypeChecker::addName.  The environment is a
\* reference to a shared map: a typeclass that is the value of the Let has
\* added its name to the map before the map is copied.
evalLet(c, expression, environment, expectedType) ==
    LET let == c.eh[expression]
    IN Only([value \in {eval(c, let.value, environment, let.valueType)} |->
           IF value.c.thrown
           THEN [c |-> [value.c EXCEPT !.eh[expression].valueType = value.x],
                 e |-> expression, x |-> expectedType]
           ELSE eval([value.c EXCEPT !.eh[expression].valueType = value.x],
                     let.afterLet,
                     addName(IF "environment" \in DOMAIN value
                             THEN value.environment ELSE environment,
                             let.ident, value.x),
                     expectedType)])

\* TypeChecker::evalTypeclass: [c, e, x, environment], the last the map of
\* the caller as addName left it
evalTypeclass(c, expression, environment, expectedType) ==
    Only([cmp \in {compare(c.th, c.eh[expression].returnType, expectedType)} |->
        LET compared == [c EXCEPT !.th = cmp.h,
                                  !.eh[expression].returnType = cmp.l]
        IN IF ~cmp.ok
           THEN [c |-> TypeCheckerPrintError(compared, "Mismatched type"),
                 e |-> expression, x |-> cmp.r, environment |-> environment]
           ELSE [c |-> compared, e |-> expression, x |-> cmp.r,
                 environment |-> addName(environment, c.eh[expression].ident,
                                         cmp.l)]])

\* TypeChecker::evalReference with TypeChecker::getName, for a reference
\* whose type is neither a tuple nor a typeclass.  resolveType and compare
\* work on copies of both pointers.
evalReference(c, expression, environment, expectedType) ==
    LET reference == c.eh[expression]
    IN Only([referenceType \in
                 {IF reference.ident \in DOMAIN environment
                  THEN [s |-> c, id |-> environment[reference.ident]]
                  ELSE NewTy(TypeCheckerPrintError(c, "does not exist in this scope"),
                             UnknownType)} |->
       Only([bound \in {[referenceType.s EXCEPT
                            !.eh[expression].returnType = referenceType.id]} |->
       Only([fielded \in {IF reference.fieldIdent # ""
                          THEN TypeCheckerPrintError(bound,
                                   "Field given for non-typeclass or tuple type")
                          ELSE bound} |->
       Only([resolvedReturnType \in
                 {resolveType(fielded.th, referenceType.id, environment)} |->
       Only([resolvedExpectedType \in
                 {resolveType(resolvedReturnType.h, expectedType, environment)} |->
       Only([cmp \in {compare(resolvedExpectedType.h, resolvedReturnType.t,
                              resolvedExpectedType.t)} |->
           LET compared == [fielded EXCEPT !.th = cmp.h]
           IN [c |-> IF cmp.ok THEN compared
                     ELSE TypeCheckerPrintError(compared, "Mismatched type"),
               e |-> expression, x |-> expectedType]])])])])])])

\* TypeChecker::evalBranch
evalBranch(c, expression, environment, expectedType) ==
    LET branch == c.eh[expression]
    IN Only([temp \in {NewTy(c, BoolType)} |->
       Only([condition \in {eval(temp.s, branch.condition, environment,
                                 temp.id)} |->
       IF condition.c.thrown
       THEN [c |-> condition.c, e |-> expression, x |-> expectedType]
       ELSE
       Only([elseBranch \in {eval(condition.c, branch.elseBranch, environment,
                                  expectedType)} |->
       IF elseBranch.c.thrown THEN elseBranch
       ELSE
       Only([ifBranch \in {eval(elseBranch.c, branch.ifBranch, environment,
                                elseBranch.c.eh[elseBranch.e].returnType)} |->
           [c |-> ifBranch.c, e |-> ifBranch.e, x |-> elseBranch.x]])])])])

\* the loop over application->genericReplacementTypes of evalApplication:
\* [thrown, environment]; genericTypes.at(genericIndex) throws
\* std::out_of_range past the function's generic parameters
RECURSIVE bindGenerics(_, _, _, _, _)
bindGenerics(th, genericTypes, genericReplacementTypes, functionInnerEnvironment, genericIndex) ==
    IF genericIndex > Len(genericReplacementTypes)
    THEN [thrown |-> FALSE, environment |-> functionInnerEnvironment]
    ELSE IF genericIndex > Len(genericTypes)
    THEN [thrown |-> TRUE, environment |-> functionInnerEnvironment]
    ELSE bindGenerics(th, genericTypes, genericReplacementTypes,
                      addName(functionInnerEnvironment,
                              th[genericTypes[genericIndex]].identifier,
                              genericReplacementTypes[genericIndex]),
                      genericIndex + 1)

\* "auto type = copyArgumentType(declared); resolveType(type, environment)"
\* of evalApplication: [c, t]
resolvedCopy(c, declared, environment) ==
    Only([copied \in {copyArgumentType(c, declared)} |->
    Only([resolved \in {resolveType(copied.s.th, copied.id, environment)} |->
        [c |-> [copied.s EXCEPT !.th = resolved.h], t |-> resolved.t]])])

\* the loop over application->arguments of evalApplication:
\* [c, environment]; argumentTypes.at(argumentIndex) throws
\* std::out_of_range past the function's parameters
RECURSIVE evalArguments(_, _, _, _, _, _)
evalArguments(c, expression, functionType, environment, functionInnerEnvironment, argumentIndex) ==
    IF argumentIndex > Len(c.eh[expression].arguments)
    THEN [c |-> c, environment |-> functionInnerEnvironment]
    ELSE IF argumentIndex > Len(c.th[functionType].argumentTypes)
    THEN [c |-> [c EXCEPT !.thrown = TRUE],
          environment |-> functionInnerEnvironment]
    ELSE
    Only([argumentType \in
              {resolvedCopy(c, c.th[functionType].argumentTypes[argumentIndex],
                            functionInnerEnvironment)} |->
    Only([argument \in {eval(argumentType.c,
                             c.eh[expression].arguments[argumentIndex],
                             environment, argumentType.t)} |->
        IF argument.c.thrown
        THEN [c |-> argument.c, environment |-> functionInnerEnvironment]
        ELSE evalArguments(
                 argument.c, expression, functionType, environment,
                 IF argument.c.th[functionType].argumentNames # <<>>
                 THEN addName(functionInnerEnvironment,
                              argument.c.th[functionType].argumentNames[argumentIndex],
                              argument.x)
                 ELSE functionInnerEnvironment,
                 argumentIndex + 1)])])

\* the loop over application->arguments of evalApplication for a typeclass:
\* each argument is checked against the type of the field of its index;
\* fieldTypes.at(argumentIndex) throws std::out_of_range past the fields
RECURSIVE evalFields(_, _, _, _, _)
evalFields(c, expression, typeclassType, environment, argumentIndex) ==
    IF argumentIndex > Len(c.eh[expression].arguments) THEN c
    ELSE IF argumentIndex > Len(c.th[typeclassType].fieldTypes)
    THEN [c EXCEPT !.thrown = TRUE]
    ELSE Only([argument \in
                   {eval(c, c.eh[expression].arguments[argumentIndex], environment,
                         c.th[typeclassType].fieldTypes[argumentIndex].second)} |->
             IF argument.c.thrown THEN argument.c
             ELSE evalFields([argument.c EXCEPT
                                 !.th[typeclassType].fieldTypes[argumentIndex]
                                     .second = argument.x],
                             expression, typeclassType, environment,
                             argumentIndex + 1)])

\* the outcomes of reading ->ident through
\* static_pointer_cast<TypeclassType>(expectedType) when expectedType is an
\* object of another class: the read ends the process, or the string read
\* is or is not the typeclass's name
BadCastOutcomes == {"signal", "equal", "differs"}

\* the two checks of the expected type in the typeclass arm of
\* evalApplication: the checker after them
checkExpectedTypeclass(c, typeclassType, expectedType) ==
    Only([tagged \in {IF c.th[expectedType].dataType # "TYPECLASS"
                      THEN TypeCheckerPrintError(c, "Mismatched type")
                      ELSE c} |->
        IF c.th[expectedType].cls = "TypeclassType"
        THEN IF c.th[typeclassType].ident # c.th[expectedType].ident
             THEN TypeCheckerPrintError(tagged, "Mismatched type")
             ELSE tagged
        ELSE CASE c.ub = "signal" -> [tagged EXCEPT !.killed = TRUE, !.thrown = TRUE]
               [] c.ub = "equal" -> tagged
               [] c.ub = "differs" -> TypeCheckerPrintError(tagged, "Mismatched type")])

\* the checks of evalApplication on the numbers of arguments and of types
\* given, with the function's inner environment made if it has none: the
\* checker after them
checkSignature(c, expression, ident, functionType) ==
    Only([merged \in
              {IF c.eh[ident].expType = "APP"
               THEN [c EXCEPT !.eh[expression].genericReplacementTypes =
                                  @ \o c.eh[ident].genericReplacementTypes]
               ELSE c} |->
    Only([counted \in
              {IF Len(merged.eh[expression].arguments)
                      # Len(merged.th[functionType].argumentTypes)
               THEN TypeCheckerPrintError(merged,
                        "Function application does not match signature")
               ELSE merged} |->
    Only([plain \in
              {IF /\ counted.th[functionType].genericTypes = <<>>
                  /\ counted.eh[expression].genericReplacementTypes # <<>>
               THEN TypeCheckerPrintError(counted,
                        "Types provided for non-templated function")
               ELSE counted} |->
    Only([templated \in
              {IF /\ plain.th[functionType].genericTypes # <<>>
                  /\ plain.eh[expression].genericReplacementTypes = <<>>
               THEN TypeCheckerPrintError(plain,
                        "No types provided for templated function")
               ELSE plain} |->
        IF ~templated.th[functionType].hasInnerEnvironment
        THEN [templated EXCEPT
                 !.th[functionType].hasInnerEnvironment = TRUE,
                 !.th[functionType].functionInnerEnvironment =
                     [name \in {} |-> 0]]
        ELSE templated])])])])

\* the end of evalApplication: the resolved return type is compared with
\* the expected type and becomes the application's type, marked resolved
returnApplication(c, expression, resolvedReturnType, expectedType) ==
    Only([cmp \in {compare(c.th, resolvedReturnType, expectedType)} |->
    Only([compared \in
              {IF cmp.ok THEN [c EXCEPT !.th = cmp.h]
               ELSE TypeCheckerPrintError([c EXCEPT !.th = cmp.h],
                                          "Mismatched type")} |->
        [c |-> [compared EXCEPT !.eh[expression].returnType = cmp.l,
                                !.th[cmp.l].resolved = TRUE],
         e |-> expression, x |-> cmp.r]])])

\* "eval(functionType->functionBody, functionInnerEnvironment,
\* resolvedReturnType)" of evalApplication.  checking holds the applications
\* whose call of it has not returned.  The application is marked resolved
\* only after the call, so when the body leads back to an application in
\* checking, that application is entered again, and again from there: which
\* expressions are evaluated does not depend on the types bound, the
\* recursion does not end and the stack of the process is exhausted.
evalFunctionBody(c, expression, functionType, environment, resolvedReturnType) ==
    IF expression \in c.checking
    THEN [c |-> [c EXCEPT !.exhausted = TRUE, !.thrown = TRUE],
          e |-> expression, x |-> resolvedReturnType]
    ELSE Only([body \in {eval([c EXCEPT !.checking = @ \cup {expression}],
                              c.th[functionType].functionBody, environment,
                              resolvedReturnType)} |->
             [c |-> [body.c EXCEPT !.checking = @ \ {expression}],
              e |-> body.e, x |-> body.x]])

\* TypeChecker::evalApplication
evalApplication(c, expression, environment, expectedType) ==
    LET application == c.eh[expression]
    IN Only([temp \in {NewTy(c, UnknownType)} |->
       Only([ident \in {eval(temp.s, application.ident, environment, temp.id)} |->
           IF ident.c.thrown
           THEN [c |-> ident.c, e |-> expression, x |-> expectedType]
           ELSE
           LET listType == ident.c.eh[ident.e].returnType
               functionType == ident.c.eh[ident.e].returnType
           IN CASE ident.c.th[functionType].dataType = "FUNC" ->
                   Only([prepared \in {checkSignature(ident.c, expression, ident.e,
                                                      functionType)} |->
                   Only([generics \in
                             {bindGenerics(prepared.th,
                                           prepared.th[functionType].genericTypes,
                                           prepared.eh[expression]
                                               .genericReplacementTypes,
                                           prepared.th[functionType]
                                               .functionInnerEnvironment,
                                           1)} |->
                   IF generics.thrown
                   THEN [c |-> [prepared EXCEPT !.thrown = TRUE],
                         e |-> expression, x |-> expectedType]
                   ELSE
                   Only([arguments \in
                             {evalArguments(prepared, expression, functionType,
                                            environment, generics.environment,
                                            1)} |->
                   IF arguments.c.thrown
                   THEN [c |-> arguments.c, e |-> expression, x |-> expectedType]
                   ELSE
                   Only([resolvedReturnType \in
                             {resolvedCopy(arguments.c,
                                           arguments.c.th[functionType].returnType,
                                           arguments.environment)} |->
                   Only([body \in
                             {IF /\ ~resolvedReturnType.c.th[
                                        resolvedReturnType.c.eh[expression]
                                            .returnType].resolved
                                 /\ ~resolvedReturnType.c.th[functionType].isBuiltin
                                 /\ resolvedReturnType.c.th[functionType]
                                        .genericTypes # <<>>
                                 /\ resolvedReturnType.c.th[functionType]
                                        .functionBody # 0
                              THEN evalFunctionBody(resolvedReturnType.c, expression,
                                                    functionType,
                                                    arguments.environment,
                                                    resolvedReturnType.t)
                              ELSE [c |-> resolvedReturnType.c, e |-> expression,
                                    x |-> resolvedReturnType.t]} |->
                       IF body.c.thrown
                       THEN [c |-> body.c, e |-> expression, x |-> expectedType]
                       ELSE returnApplication(body.c, expression, body.x,
                                              expectedType)])])])])])
                [] ident.c.th[functionType].dataType = "TYPECLASS" ->
                   Only([expected \in {checkExpectedTypeclass(ident.c, functionType,
                                                              expectedType)} |->
                   IF expected.thrown
                   THEN [c |-> expected, e |-> expression, x |-> expectedType]
                   ELSE
                   Only([counted \in
                             {IF Len(application.arguments)
                                     # Len(expected.th[functionType].fieldTypes)
                              THEN TypeCheckerPrintError(expected,
                                       "Typeclass construction does not match signature")
                              ELSE expected} |->
                   Only([fields \in {evalFields(counted, expression, functionType,
                                                environment, 1)} |->
                       [c |-> IF fields.thrown THEN fields
                              ELSE [fields EXCEPT
                                       !.eh[expression].returnType = functionType],
                        e |-> expression, x |-> expectedType]])])])
                [] ident.c.th[listType].dataType = "LIST" ->
                   IF application.arguments = <<>>
                   THEN [c |-> TypeCheckerPrintError(ident.c,
                                   "List access needs integer argument"),
                         e |-> expression, x |-> expectedType]
                   ELSE
                   Only([listTemp \in {NewTy(ident.c, IntType)} |->
                   Only([argument \in {eval(listTemp.s, application.arguments[1],
                                            environment, listTemp.id)} |->
                   IF argument.c.thrown
                   THEN [c |-> argument.c, e |-> expression, x |-> expectedType]
                   ELSE
                   Only([expectedList \in {NewTy(argument.c,
                                                 ListType(expectedType))} |->
                   Only([again \in {eval(expectedList.s, ident.e, environment,
                                         expectedList.id)} |->
                       [c |-> [again.c EXCEPT
                                  !.eh[expression].returnType = listType],
                        e |-> expression, x |-> expectedType]])])])])
                [] ident.c.th[listType].dataType
                        \notin {"LIST", "FUNC", "TYPECLASS"} ->
                   [c |-> TypeCheckerPrintError(ident.c,
                             "Bad function or typeclass application"),
                    e |-> expression, x |-> expectedType]])])

\* the loop over listDefinition->values of TypeChecker::evalListDefinition:
\* [c, expType]
RECURSIVE evalListElements(_, _, _)
evalListElements(c, values, expType) ==
    IF values = <<>> THEN [c |-> c, expType |-> expType]
    ELSE Only([cmp \in {compare(c.th, c.eh[Head(values)].returnType, expType)} |->
             LET compared == [c EXCEPT !.th = cmp.h,
                                       !.eh[Head(values)].returnType = cmp.l]
             IN evalListElements(IF cmp.ok THEN compared
                                 ELSE TypeCheckerPrintError(compared,
                                                            "Mismatched type"),
                                 Tail(values), cmp.r)])

\* TypeChecker::evalListDefinition
evalListDefinition(c, expression, environment, expectedType) ==
    LET listDefinition == c.eh[expression]
        expType == IF c.th[expectedType].dataType = "LIST"
                   THEN c.th[expectedType].listType
                   ELSE expectedType
    IN Only([elements \in {evalListElements(c, listDefinition.values, expType)} |->
       Only([cmp \in {compare(elements.c.th, listDefinition.returnType,
                              expectedType)} |->
           LET compared == [elements.c EXCEPT !.th = cmp.h,
                                              !.eh[expression].returnType = cmp.l]
           IN [c |-> IF cmp.ok THEN compared
                     ELSE TypeCheckerPrintError(compared, "Mismatched type"),
               e |-> expression, x |-> cmp.r]])])

\* the loop of evalProgram that adds every function's name
RECURSIVE addFunctions(_, _, _)
addFunctions(c, functions, environment) ==
    IF functions = <<>> THEN environment
    ELSE addFunctions(c, Tail(functions),
                      addName(environment, c.eh[Head(functions)].name,
                              c.eh[Head(functions)].returnType))

\* the loop of evalProgram over function->genericParameters
RECURSIVE addGenericParameters(_, _, _)
addGenericParameters(th, genericParameters, functionInnerEnvironment) ==
    IF genericParameters = <<>> THEN functionInnerEnvironment
    ELSE addGenericParameters(
             th, Tail(genericParameters),
             IF th[Head(genericParameters)].identifier
                    \in DOMAIN functionInnerEnvironment
             THEN functionInnerEnvironment
             ELSE addName(functionInnerEnvironment,
                          th[Head(genericParameters)].identifier,
                          Head(genericParameters)))

\* the loop of evalProgram over function->parameters
RECURSIVE addParameters(_, _, _)
addParameters(c, parameters, functionInnerEnvironment) ==
    IF parameters = <<>> THEN functionInnerEnvironment
    ELSE LET parameter == c.eh[Head(parameters)]
         IN addParameters(
                c, Tail(parameters),
                addName(functionInnerEnvironment, parameter.name,
                        IF c.th[parameter.returnType].dataType = "GEN"
                        THEN functionInnerEnvironment[
                                 c.th[parameter.returnType].identifier]
                        ELSE parameter.returnType))

\* the loop of evalProgram that gives every function its inner environment
RECURSIVE innerEnvironments(_, _, _)
innerEnvironments(c, functions, environment) ==
    IF functions = <<>> THEN c
    ELSE
    LET function == c.eh[Head(functions)]
    IN Only([marked \in
                 {IF isBuiltin(function.name)
                  THEN [c EXCEPT !.eh[Head(functions)].isBuiltin = TRUE,
                                 !.eh[Head(functions)].builtinEnum =
                                     getBuiltin[function.name],
                                 !.th[function.returnType].isBuiltin = TRUE]
                  ELSE c} |->
       Only([functionInnerEnvironment \in
                 {addParameters(
                      marked, function.parameters,
                      addGenericParameters(
                          marked.th, function.genericParameters,
                          IF ~isBuiltin(function.name)
                          THEN eraseName(environment, function.name)
                          ELSE [name \in {} |-> 0]))} |->
           innerEnvironments(
               [marked EXCEPT
                   !.th[function.returnType].hasInnerEnvironment = TRUE,
                   !.th[function.returnType].functionInnerEnvironment =
                       functionInnerEnvironment],
               Tail(functions), environment)])])

\* the loop over match->cases of TypeChecker::evalMatch: [c, x], x the
\* expected type as the bodies left it
RECURSIVE evalCases(_, _, _, _, _, _)
evalCases(c, cases, environment, caseType, expectedType, anyOccurred) ==
    IF cases = <<>> THEN [c |-> c, x |-> expectedType]
    ELSE
    LET casePtr == c.eh[Head(cases)]
    IN Only([flagged \in
                 {IF anyOccurred
                  THEN TypeCheckerPrintError(c,
                           "Warning: case statement below 'any' is always ignored")
                  ELSE c} |->
       IF /\ c.eh[casePtr.ident].expType = "REF"
          /\ c.eh[casePtr.ident].ident = "$any"
       THEN Only([body \in {eval(flagged, casePtr.body, environment,
                                  expectedType)} |->
                IF body.c.thrown THEN [c |-> body.c, x |-> body.x]
                ELSE evalCases(body.c, Tail(cases), environment, caseType,
                               body.x, TRUE)])
       ELSE Only([ident \in {eval(flagged, casePtr.ident, environment,
                                   caseType)} |->
            IF ident.c.thrown THEN [c |-> ident.c, x |-> expectedType]
            ELSE
            Only([body \in {eval(ident.c, casePtr.body, environment,
                                  expectedType)} |->
                IF body.c.thrown THEN [c |-> body.c, x |-> body.x]
                ELSE evalCases(body.c, Tail(cases), environment, ident.x,
                               body.x, anyOccurred)])])])

\* TypeChecker::evalMatch with TypeChecker::getName
evalMatch(c, expression, environment, expectedType) ==
    Only([caseType \in
              {IF c.eh[expression].ident \in DOMAIN environment
               THEN [s |-> c, id |-> environment[c.eh[expression].ident]]
               ELSE NewTy(TypeCheckerPrintError(c, "does not exist in this scope"),
                          UnknownType)} |->
    Only([cases \in {evalCases(caseType.s, c.eh[expression].cases, environment,
                               caseType.id, expectedType, FALSE)} |->
        [c |-> cases.c, e |-> expression, x |-> cases.x]])])

\* TypeChecker::evalProgram, for a program that is the root of the tree
evalProgram(c, expression, environment, expectedType) ==
    Only([declared \in {addFunctions(c, c.eh[expression].functions,
                                     environment)} |->
    Only([inner \in {innerEnvironments(c, c.eh[expression].functions,
                                       declared)} |->
        eval(inner, c.eh[expression].body, declared, expectedType)])])

\* TypeChecker::eval
eval(c, expression, environment, expectedType) ==
    LET expType == c.eh[expression].expType
    IN CASE expType = "PROG" -> evalProgram(c, expression, environment, expectedType)
         [] expType = "LIT" -> evalLiteral(c, expression, environment, expectedType)
         [] expType = "PRIM" -> evalPrimitive(c, expression, environment, expectedType)
         [] expType = "LET" -> evalLet(c, expression, environment, expectedType)
         [] expType = "REF" -> evalReference(c, expression, environment, expectedType)
         [] expType = "BRANCH" -> evalBranch(c, expression, environment, expectedType)
         [] expType = "TYPECLASS" ->
              evalTypeclass(c, expression, environment, expectedType)
         [] expType = "MATCH" -> evalMatch(c, expression, environment, expectedType)
         [] expType = "APP" -> evalApplication(c, expression, environment, expectedType)
         [] expType = "LIST_DEF" ->
              evalListDefinition(c, expression, environment, expectedType)
         [] expType = "END" -> [c |-> c, e |-> expression, x |-> expectedType]
         [] OTHER -> [c |-> TypeCheckerPrintError(c, "Unknown expression type"),
                      e |-> expression, x |-> expectedType]

\* TypeChecker::TypeChecker and TypeChecker::check: the checker after the
\* check of the tree in the heaps eh and th, ub the outcome of a read through
\* a bad cast
check(eh, th, rootExpression, ub) ==
    Only([temp \in {NewTy([NoTypeChecker EXCEPT !.eh = eh, !.th = th, !.ub = ub],
                          UnknownType)} |->
        eval(temp.s, rootExpression, [name \in {} |-> 0], temp.id).c])

(***************************************************************************)
(* The interpreter (unnamed/part_001, interpreter.cpp).  The interpreter m *)
(* carries the heaps of expressions, types, values (vh) and environments   *)
(* (nh: an environment is a shared pointer to a map, and interpretLet and  *)
(* interpretProgram hand the pointer on), its latch, the messages printed, *)
(* whether a RuntimeException is in flight (thrown) or the process was     *)
(* killed by a signal (killed), the arithmetic performed (arith) and the   *)
(* value each expression returned (returns).  Each function returns        *)
(* [m, v]; v is meaningless once the evaluation has stopped.               *)
(***************************************************************************)
\* Interpreter::getStackTraceString: the frames of callStack, the last
\* pushed first
getStackTraceString(m) ==
    [i \in 1..Len(m.callStack) |-> m.callStack[Len(m.callStack) + 1 - i]]

\* Interpreter::printError: sets the latch, prints the message and the
\* stack trace, and throws
InterpreterPrintError(m, errorMessage) ==
    [m EXCEPT !.error = TRUE, !.thrown = TRUE, !.log = Append(@, errorMessage),
              !.stackTrace = getStackTraceString(m)]

\* std::make_shared of an environment map
NewEnv(m, map) == [m |-> [m EXCEPT !.nh = Append(@, map)], n |-> Len(m.nh) + 1]

Stopped(m) == m.thrown \/ m.killed

\* what the build can make of a % 0, which is undefined: the process is
\* killed by the signal of the division trap, or the operation yields a
\* number
ModByZeroOutcomes == {"signal", "zero", "dividend"}

\* Interpreter::doOperation for int and bool operands that are not
\* negative, of which / and % are those of Integers
doOperation(m, op, leftSide, rightSide, ub) ==
    LET l == m.vh[leftSide].data
        r == m.vh[rightSide].data
        performed == [m EXCEPT !.arith = Append(@, [op |-> op, l |-> l, r |-> r])]
        IntResult(data) ==
            Only([intType \in {NewTy(performed, IntType)} |->
            Only([v \in {NewVal(intType.s, IntValue(intType.id, data))} |->
                [m |-> v.s, v |-> v.id]])])
        BoolResult(data) ==
            Only([boolType \in {NewTy(performed, BoolType)} |->
            Only([v \in {NewVal(boolType.s,
                                BoolValue(boolType.id, IF data THEN 1 ELSE 0))} |->
                [m |-> v.s, v |-> v.id]])])
    IN CASE op = "PLUS" -> IntResult(l + r)
         [] op = "MINUS" -> IntResult(l - r)
         [] op = "TIMES" -> IntResult(l * r)
         [] op = "DIV" ->
              IF r = 0
              THEN [m |-> InterpreterPrintError(m, "Error: Division by zero!"),
                    v |-> m.errorNullValue]
              ELSE IntResult(l \div r)
         [] op = "MOD" ->
              IF r # 0 THEN IntResult(l % r)
              ELSE IF ub = "signal"
              THEN [m |-> [performed EXCEPT !.killed = TRUE], v |-> 0]
              ELSE IntResult(IF ub = "zero" THEN 0 ELSE l)
         [] op = "GRT" -> BoolResult(l > r)
         [] op = "LST" -> BoolResult(l < r)
         [] op \in {"NOT", "EQ"} -> BoolResult(l = r)
         [] op = "NOTEQ" -> BoolResult(l # r)
         [] op = "GRTEQ" -> BoolResult(l >= r)
         [] op = "LSTEQ" -> BoolResult(l <= r)
         [] op = "AND" -> BoolResult(l # 0 /\ r # 0)
         [] op = "OR" -> BoolResult(l # 0 \/ r # 0)
         [] OTHER -> [m |-> m, v |-> m.errorNullValue]

RECURSIVE interpret(_, _, _, _)
RECURSIVE interpretProgram(_, _, _, _)
RECURSIVE interpretMatch(_, _, _, _)

\* Interpreter::interpretLiteral
interpretLiteral(m, expression) ==
    LET literal == m.eh[expression]
        dataType == m.th[literal.returnType].dataType
    IN IF dataType \in {"INT", "CHAR", "BOOL", "NULLVAL"}
       THEN Only([value \in
                      {NewVal(m, CASE dataType = "INT" ->
                                        IntValue(literal.returnType, literal.data)
                                   [] dataType = "CHAR" ->
                                        [NewValue("CharValue", literal.returnType)
                                             EXCEPT !.data = literal.data]
                                   [] dataType = "BOOL" ->
                                        BoolValue(literal.returnType, literal.data)
                                   [] OTHER -> NullValue(literal.returnType))} |->
                [m |-> value.s, v |-> value.id]])
       ELSE [m |-> InterpreterPrintError(m, "Error: Unknown literal type"),
             v |-> m.errorNullValue]

\* Interpreter::interpretPrimitive
interpretPrimitive(m, expression, environment, ub) ==
    LET primitive == m.eh[expression]
    IN Only([leftValue \in {interpret(m, primitive.leftSide, environment, ub)} |->
       IF Stopped(leftValue.m) THEN leftValue
       ELSE
       Only([rightValue \in {interpret(leftValue.m, primitive.rightSide,
                                       environment, ub)} |->
           IF Stopped(rightValue.m) THEN rightValue
           ELSE IF rightValue.m.th[rightValue.m.vh[leftValue.v].type].dataType
                       \in {"INT", "CHAR", "STRING", "BOOL"}
           THEN doOperation(rightValue.m, primitive.op, leftValue.v,
                            rightValue.v, ub)
           ELSE [m |-> InterpreterPrintError(rightValue.m,
                            "Error: Binary operator requires primitive types"),
                 v |-> m.errorNullValue]])])

\* Interpreter::interpretLet with Interpreter::addName: the name is added
\* to the map the caller's environment points to
interpretLet(m, expression, environment, ub) ==
    LET let == m.eh[expression]
    IN Only([letValue \in {interpret(m, let.value, environment, ub)} |->
           IF Stopped(letValue.m) THEN letValue
           ELSE interpret([letValue.m EXCEPT !.nh[environment] =
                              [name \in DOMAIN @ \cup {let.ident} |->
                                  IF name = let.ident THEN letValue.v
                                  ELSE letValue.m.nh[environment][name]]],
                          let.afterLet, environment, ub)])

\* Interpreter::interpretReference with Interpreter::getName, for a value
\* that is neither a tuple nor a typeclass
interpretReference(m, expression, environment) ==
    LET reference == m.eh[expression]
    IN IF reference.ident \in DOMAIN m.nh[environment]
       THEN [m |-> m, v |-> m.nh[environment][reference.ident]]
       ELSE [m |-> InterpreterPrintError(m, "does not exist in this scope"),
             v |-> m.errorNullValue]

\* Interpreter::interpretBranch
interpretBranch(m, expression, environment, ub) ==
    LET branch == m.eh[expression]
    IN Only([conditionValue \in {interpret(m, branch.condition, environment,
                                           ub)} |->
           IF Stopped(conditionValue.m) THEN conditionValue
           ELSE interpret(conditionValue.m,
                          IF conditionValue.m.vh[conditionValue.v].data # 0
                          THEN branch.ifBranch ELSE branch.elseBranch,
                          environment, ub)])

\* the loop over application->arguments of interpretApplication, which
\* binds every parameter in functionEnvironment to the value its argument
\* has in the caller's environment: [m, v].  parameterNames.at throws
\* std::out_of_range past the function's parameters (no application that
\* passed the type checker has that many arguments).
RECURSIVE interpretArguments(_, _, _, _, _, _, _)
interpretArguments(m, expression, functionValue, environment, functionEnvironment, argumentIndex, ub) ==
    IF argumentIndex > Len(m.eh[expression].arguments) THEN [m |-> m, v |-> 0]
    ELSE IF argumentIndex > Len(m.vh[functionValue].parameterNames)
    THEN [m |-> [m EXCEPT !.thrown = TRUE], v |-> 0]
    ELSE
    Only([argument \in {interpret(m, m.eh[expression].arguments[argumentIndex],
                                  environment, ub)} |->
        IF Stopped(argument.m) THEN argument
        ELSE interpretArguments(
                 [argument.m EXCEPT !.nh[functionEnvironment] =
                     addName(@, argument.m.vh[functionValue]
                                    .parameterNames[argumentIndex],
                             argument.v)],
                 expression, functionValue, environment, functionEnvironment,
                 argumentIndex + 1, ub)])

\* the loop of interpretApplication over the function's captured
\* environment: the map functionEnvironment with every captured name that
\* is not a built-in's added
addCaptured(functionEnvironment, functionBodyEnvironment) ==
    [n \in DOMAIN functionEnvironment
             \cup {c \in DOMAIN functionBodyEnvironment : ~isBuiltin(c)} |->
        IF n \in DOMAIN functionBodyEnvironment /\ ~isBuiltin(n)
        THEN functionBodyEnvironment[n]
        ELSE functionEnvironment[n]]

\* "if (application->ident->expType == REF) callStack.push_back(...)" of
\* interpretApplication; nothing takes a frame off callStack
pushFrame(m, ident) ==
    IF m.eh[ident].expType = "REF"
    THEN [m EXCEPT !.callStack = Append(@, [name |-> m.eh[ident].ident,
                                            token |-> m.eh[ident].token])]
    ELSE m

\* the loop of Interpreter::interpretTypeclass over the fields: every field
\* is given a new Value of a new UnknownType in the map fields
RECURSIVE initFields(_, _, _, _)
initFields(m, typeclass, fields, fieldIndex) ==
    IF fieldIndex > Len(typeclass.fields) THEN m
    ELSE Only([unknown \in {NewTy(m, UnknownType)} |->
         Only([initValue \in {NewVal(unknown.s, NewValue("Value", unknown.id))} |->
             initFields([initValue.s EXCEPT !.nh[fields] =
                            addName(@, m.eh[typeclass.fields[fieldIndex]].name,
                                    initValue.id)],
                        typeclass, fields, fieldIndex + 1)])])

\* Interpreter::interpretTypeclass: the name is added to the map the
\* caller's environment points to
interpretTypeclass(m, expression, environment) ==
    LET typeclass == m.eh[expression]
    IN Only([fields \in {NewEnv(m, [name \in {} |-> 0])} |->
       Only([initialised \in {initFields(fields.m, typeclass, fields.n, 1)} |->
       Only([typeclassValue \in
                 {NewVal(initialised,
                         TypeclassValue(typeclass.returnType, fields.n))} |->
           [m |-> [typeclassValue.s EXCEPT !.nh[environment] =
                      addName(@, typeclass.ident, typeclassValue.id)],
            v |-> typeclassValue.id]])])])

\* the loop over application->arguments of interpretApplication for a
\* typeclass: [m, v]; fieldTypes.at(argumentIndex) throws std::out_of_range
\* past the fields
RECURSIVE interpretFields(_, _, _, _, _, _, _)
interpretFields(m, expression, typeclassType, typeclassFields, environment, argumentIndex, ub) ==
    IF argumentIndex > Len(m.eh[expression].arguments)
    THEN [m |-> m, v |-> m.errorNullValue]
    ELSE IF argumentIndex > Len(m.th[typeclassType].fieldTypes)
    THEN [m |-> [m EXCEPT !.thrown = TRUE], v |-> m.errorNullValue]
    ELSE Only([argument \in
                   {interpret(m, m.eh[expression].arguments[argumentIndex],
                              environment, ub)} |->
             IF Stopped(argument.m) THEN argument
             ELSE interpretFields(
                      [argument.m EXCEPT !.nh[typeclassFields] =
                          addName(@, m.th[typeclassType].fieldTypes[argumentIndex]
                                         .first,
                                  argument.v)],
                      expression, typeclassType, typeclassFields, environment,
                      argumentIndex + 1, ub)])

\* Interpreter::interpretApplication, for a callee that is a typeclass, a
\* list or a function with a body (the calls of the built-ins are those of
\* SpecBuiltin)
interpretApplication(m, expression, environment, ub) ==
    LET application == m.eh[expression]
    IN Only([ident \in {interpret(m, application.ident, environment, ub)} |->
       IF Stopped(ident.m) THEN ident
       ELSE CASE ident.m.th[ident.m.vh[ident.v].type].dataType = "TYPECLASS" ->
           Only([typeclassFields \in
                     {NewEnv(ident.m, ident.m.nh[ident.m.vh[ident.v].fields])} |->
           Only([fields \in
                     {interpretFields(typeclassFields.m, expression,
                                      ident.m.vh[ident.v].type, typeclassFields.n,
                                      environment, 1, ub)} |->
               IF Stopped(fields.m) THEN fields
               ELSE Only([made \in {NewVal(fields.m,
                                           TypeclassValue(ident.m.vh[ident.v].type,
                                                          typeclassFields.n))} |->
                        [m |-> made.s, v |-> made.id]])])])
            [] ident.m.th[ident.m.vh[ident.v].type].dataType = "LIST" ->
           Only([argument \in {interpret(ident.m, application.arguments[1],
                                         environment, ub)} |->
               IF Stopped(argument.m) THEN argument
               ELSE LET index == ToUnsigned(argument.m.vh[argument.v].data)
                        listValue == argument.m.vh[ident.v]
                    IN IF index >= Len(listValue.listData)
                       THEN [m |-> InterpreterPrintError(argument.m,
                                        "Error: Out of bounds list access"),
                             v |-> m.errorNullValue]
                       ELSE [m |-> argument.m,
                             v |-> listValue.listData[index + 1]]])
            [] /\ ident.m.th[ident.m.vh[ident.v].type].dataType
                      \notin {"LIST", "TYPECLASS"}
               /\ ~ident.m.vh[ident.v].isBuiltin ->
           Only([functionEnvironment \in
                     {NewEnv(pushFrame(ident.m, application.ident),
                             ident.m.nh[environment])} |->
           Only([arguments \in
                     {interpretArguments(functionEnvironment.m, expression,
                                         ident.v, environment,
                                         functionEnvironment.n, 1, ub)} |->
               IF Stopped(arguments.m) THEN arguments
               ELSE interpret(
                        [arguments.m EXCEPT !.nh[functionEnvironment.n] =
                            addCaptured(@, arguments.m.nh[
                                arguments.m.vh[ident.v].functionBodyEnvironment])],
                        arguments.m.vh[ident.v].functionBody,
                        functionEnvironment.n, ub)])])])

\* the std::transform of Interpreter::interpretListDefinition: [m, listData]
RECURSIVE interpretElements(_, _, _, _, _)
interpretElements(m, values, listData, environment, ub) ==
    IF values = <<>> \/ Stopped(m) THEN [m |-> m, listData |-> listData]
    ELSE Only([element \in {interpret(m, Head(values), environment, ub)} |->
             interpretElements(element.m, Tail(values),
                               Append(listData, element.v), environment, ub)])

\* Interpreter::interpretListDefinition
interpretListDefinition(m, expression, environment, ub) ==
    LET listDefinition == m.eh[expression]
    IN Only([elements \in {interpretElements(m, listDefinition.values, <<>>,
                                             environment, ub)} |->
           IF Stopped(elements.m) THEN [m |-> elements.m, v |-> 0]
           ELSE Only([value \in {NewVal(elements.m,
                                        ListValue(listDefinition.returnType,
                                                  elements.listData))} |->
                    [m |-> value.s, v |-> value.id]])])

\* the capture without the erase of the function's own name
capturedWithOwnName(m, name, programEnvironment) ==
    IF isBuiltin(name) THEN [n \in {} |-> 0] ELSE m.nh[programEnvironment]

\* the map a function value of interpretProgram is given as its
\* functionBodyEnvironment: the empty map of the constructor for a built-in,
\* else a copy of the program's environment with the name erased
capturedEnvironment(m, name, programEnvironment) ==
    IF isBuiltin(name) THEN [n \in {} |-> 0]
    ELSE eraseName(m.nh[programEnvironment], name)

\* the loop of interpretProgram over program->functions: every function
\* becomes a function value that holds a copy of the program's environment
\* as it is then, less the function's own name (a built-in holds an empty
\* environment), and is added to the program's environment
RECURSIVE interpretFunctions(_, _, _)
interpretFunctions(m, functions, programEnvironment) ==
    IF functions = <<>> THEN m
    ELSE
    LET function == m.eh[Head(functions)]
    IN Only([functionBodyEnvironment \in
                 {NewEnv(m, capturedEnvironment(m, function.name,
                                                programEnvironment))} |->
       Only([functionValue \in
                 {NewVal(functionBodyEnvironment.m,
                         [FunctionValue(function.returnType,
                                        [i \in 1..Len(function.parameters) |->
                                            m.eh[function.parameters[i]].name],
                                        function.functionBody,
                                        functionBodyEnvironment.n)
                              EXCEPT !.isBuiltin = isBuiltin(function.name),
                                     !.builtinEnum =
                                         IF isBuiltin(function.name)
                                         THEN getBuiltin[function.name] ELSE @])} |->
           interpretFunctions(
               [functionValue.s EXCEPT !.nh[programEnvironment] =
                   addName(@, function.name, functionValue.id)],
               Tail(functions), programEnvironment)])])

\* Interpreter::interpretProgram
interpretProgram(m, expression, environment, ub) ==
    interpret(interpretFunctions(m, m.eh[expression].functions, environment),
              m.eh[expression].body, environment, ub)

\* what the build can make of the read of ->data through the null
\* resultValue of interpretMatch, which is undefined: the process is killed
\* by a signal, or the read yields false or true
NullReadOutcomes == {"signal", "false", "true"}

\* the loop over match->cases of Interpreter::interpretMatch
RECURSIVE interpretCases(_, _, _, _, _)
interpretCases(m, cases, matchValue, environment, ub) ==
    IF cases = <<>> THEN [m |-> m, v |-> m.errorNullValue]
    ELSE
    LET casePtr == m.eh[Head(cases)]
    IN IF /\ m.eh[casePtr.ident].expType = "REF"
          /\ m.eh[casePtr.ident].ident = "$any"
       THEN interpret(m, casePtr.body, environment, ub)
       ELSE
       Only([caseValue \in {interpret(m, casePtr.ident, environment, ub)} |->
           IF Stopped(caseValue.m) THEN caseValue
           ELSE IF caseValue.m.th[caseValue.m.vh[matchValue].type].dataType
                       \in {"INT", "CHAR", "STRING", "BOOL"}
           THEN Only([resultValue \in {doOperation(caseValue.m, "EQ", matchValue,
                                                   caseValue.v, ub)} |->
                    IF resultValue.m.vh[resultValue.v].data # 0
                    THEN interpret(resultValue.m, casePtr.body, environment, ub)
                    ELSE interpretCases(resultValue.m, Tail(cases), matchValue,
                                        environment, ub)])
           ELSE CASE m.nullRead = "signal" ->
                       [m |-> [caseValue.m EXCEPT !.killed = TRUE], v |-> 0]
                  [] m.nullRead = "true" ->
                       interpret(caseValue.m, casePtr.body, environment, ub)
                  [] m.nullRead = "false" ->
                       interpretCases(caseValue.m, Tail(cases), matchValue,
                                      environment, ub)])

\* Interpreter::interpretMatch with Interpreter::getName
interpretMatch(m, expression, environment, ub) ==
    IF m.eh[expression].ident \notin DOMAIN m.nh[environment]
    THEN [m |-> InterpreterPrintError(m, "does not exist in this scope"),
          v |-> m.errorNullValue]
    ELSE interpretCases(m, m.eh[expression].cases,
                        m.nh[environment][m.eh[expression].ident], environment, ub)

\* Interpreter::interpret; the value an expression returned is noted in
\* returns
interpret(m, expression, environment, ub) ==
    LET expType == m.eh[expression].expType
    IN Only([value \in
                 {CASE expType = "PROG" ->
                         interpretProgram(m, expression, environment, ub)
                    [] expType = "LIT" -> interpretLiteral(m, expression)
                    [] expType = "PRIM" ->
                         interpretPrimitive(m, expression, environment, ub)
                    [] expType = "LET" ->
                         interpretLet(m, expression, environment, ub)
                    [] expType = "REF" ->
                         interpretReference(m, expression, environment)
                    [] expType = "BRANCH" ->
                         interpretBranch(m, expression, environment, ub)
                    [] expType = "TYPECLASS" ->
                         interpretTypeclass(m, expression, environment)
                    [] expType = "MATCH" ->
                         interpretMatch(m, expression, environment, ub)
                    [] expType = "APP" ->
                         interpretApplication(m, expression, environment, ub)
                    [] expType = "LIST_DEF" ->
                         interpretListDefinition(m, expression, environment, ub)
                    [] expType = "END" -> [m |-> m, v |-> m.errorNullValue]
                    [] OTHER ->
                         [m |-> InterpreterPrintError(m, "Unknown expression type"),
                          v |-> m.errorNullValue]} |->
           IF Stopped(value.m) THEN value
           ELSE [m |-> [value.m EXCEPT !.returns =
                            Append(@, [expression |-> expression,
                                       value |-> value.v])],
                 v |-> value.v]])

\* Interpreter::Interpreter and Interpreter::run: the interpreter after the
\* run of the tree in the heaps eh and th
run(eh, th, rootExpression, ub, nullRead) ==
    Only([nullType \in {NewTy([NoInterpreter EXCEPT
                                   !.eh = eh, !.th = th, !.nullRead = nullRead,
                                   !.nh = <<[name \in {} |-> 0]>>,
                                   !.errorNullValue = 1],
                              NullType)} |->
    Only([errorNullValue \in {NewVal(nullType.s, NullValue(nullType.id))} |->
    Only([m \in {interpret(errorNullValue.s, rootExpression, 1, ub).m} |->
        IF Stopped(m) THEN m ELSE [m EXCEPT !.nh[1] = [name \in {} |-> 0]]])])])

(***************************************************************************)
(* Spec: main (includes/defs/expressions.hpp, lines 252-319) on a source   *)
(* text drawn from Sources.  The declarations of the built-ins that main   *)
(* puts in front of the source are left out: the programs drawn declare    *)
(* the functions they call.                                                *)
(***************************************************************************)
Numbers == {"0", "1", "2"}
ListOfTwo ==
    <<"val", "xs", ":", "List", "[", "int", "]", "=",
      "List", "{", "1", ",", "2", "}", ";">>
\* a block that binds x, as the value of y
Block(t, v) == <<"val", "y", ":", t, "=", "{", "val", "x", ":", t, "=", v, ";", "x", "}", ";">>
NestedBlocks ==
    {outer \o Block(t[1], t[2]) \o <<"x">> :
         outer \in {<<>>, <<"val", "x", ":", "int", "=", "1", ";">>},
         t \in {<<"int", "2">>, <<"bool", "true">>}}

\* function declarations, and the programs that call the functions declared
Constant ==
    <<"func", "f", "(", ")", "->", "int", "=", "1", ";">>
TakesParameterF ==
    <<"func", "g", "(", "f", ":", "int", ")", "->", "int", "=", "f", ";">>
TakesParameterX ==
    <<"func", "g", "(", "x", ":", "int", ")", "->", "int", "=", "x", ";">>
Identity ==
    <<"func", "f", "[", "T", "]", "(", "x", ":", "T", ")", "->", "T", "=",
      "x", ";">>
IdentityOfTwo ==
    <<"func", "f", "[", "T", ",", "U", "]", "(", "x", ":", "T", ")", "->",
      "T", "=", "x", ";">>
TakesList ==
    <<"func", "f", "[", "T", "]", "(", "x", ":", "List", "[", "T", "]", ")",
      "->", "int", "=", "1", ";">>
TakesListOfLists ==
    <<"func", "f", "[", "T", "]", "(", "x", ":", "List", "[", "List", "[",
      "T", "]", "]", ")", "->", "int", "=", "1", ";">>
DividesByZero ==
    <<"func", "f", "(", ")", "->", "int", "=", "1", "/", "0", ";">>
FunctionPrograms ==
    {Constant \o
         <<"f", "(", ")">>,
     Constant \o
         <<"val", "x", ":", "int", "=", "f", "(", ")", ";", "x", "/", "0">>,
     Constant \o
         <<"val", "x", ":", "int", "=", "f", "(", ")", ";", "x">>,
     DividesByZero \o
         <<"f", "(", ")">>,
     Constant \o TakesParameterF \o
         <<"g", "(", "2", ")">>,
     Constant \o TakesParameterX \o
         <<"g", "(", "2", ")">>,
     Constant \o TakesParameterX \o
         <<"g", "(", "f", "(", ")", ")">>,
     TakesParameterX \o
         <<"g", "(", "2", ")">>,
     TakesParameterX \o
         <<"val", "x", ":", "int", "=", "1", ";", "g", "(", "2", ")">>,
     TakesParameterX \o
         <<"g", "(", "1", ",", "2", ")">>,
     TakesParameterX \o
         <<"g", "(", ")">>,
     TakesParameterX \o
         <<"g", "[", "int", "]", "(", "2", ")">>,
     TakesParameterX \o
         <<"g", "(", "true", ")">>,
     Identity \o
         <<"f", "[", "int", "]", "(", "2", ")">>,
     Identity \o
         <<"f", "[", "bool", "]", "(", "2", ")">>,
     Identity \o
         <<"f", "(", "2", ")">>,
     Identity \o
         <<"f", "[", "int", ",", "bool", "]", "(", "2", ")">>,
     Identity \o
         <<"val", "x", ":", "int", "=", "f", "[", "int", "]", "(", "2", ")",
           ";", "f", "[", "bool", "]", "(", "true", ")">>,
     IdentityOfTwo \o
         <<"f", "[", "int", "]", "(", "2", ")">>,
     IdentityOfTwo \o
         <<"f", "[", "int", ",", "bool", "]", "(", "2", ")">>,
     IdentityOfTwo \o
         <<"f", "[", "int", ",", "bool", ",", "int", "]", "(", "2", ")">>,
     TakesList \o
         <<"f", "[", "int", "]", "(", "List", "{", "1", "}", ")">>,
     TakesList \o
         <<"val", "y", ":", "int", "=", "f", "[", "int", "]", "(", "List",
           "{", "1", "}", ")", ";", "f", "[", "bool", "]", "(", "List", "{",
           "true", "}", ")">>,
     TakesListOfLists \o
         <<"f", "[", "int", "]", "(", "List", "{", "List", "{", "1", "}",
           "}", ")">>,
     TakesListOfLists \o
         <<"val", "y", ":", "int", "=", "f", "[", "int", "]", "(", "List",
           "{", "List", "{", "1", "}", "}", ")", ";", "f", "[", "bool", "]",
           "(", "List", "{", "List", "{", "true", "}", "}", ")">>}

\* functions that call themselves or each other
GenericRecursive ==
    <<"func", "f", "[", "T", "]", "(", "x", ":", "T", ")", "->", "T", "=",
      "f", "[", "int", "]", "(", "1", ")", ";">>
Recursive ==
    <<"func", "f", "(", "x", ":", "bool", ")", "->", "int", "=",
      "if", "(", "x", ")", "f", "(", "false", ")", "else", "0", ";">>
CallsG ==
    <<"func", "f", "[", "T", "]", "(", "x", ":", "T", ")", "->", "T", "=",
      "g", "[", "int", "]", "(", "1", ")", ";">>
CallsF ==
    <<"func", "g", "[", "T", "]", "(", "x", ":", "T", ")", "->", "T", "=",
      "f", "[", "int", "]", "(", "1", ")", ";">>
IdentityG ==
    <<"func", "g", "[", "T", "]", "(", "x", ":", "T", ")", "->", "T", "=", "x", ";">>
\* a name declared twice, and a function of the name of a built-in
DeclaredTwice ==
    Constant \o <<"func", "f", "(", ")", "->", "int", "=", "2", ";", "f", "(", ")">>
NamedAsBuiltin ==
    <<"func", "head", "(", ")", "->", "int", "=", "1", ";", "2">>
\* the typeclass P of one field, and programs that construct a P: as the
\* last expression, as a statement, as the value of a Let declared of type P,
\* with one argument too many, and from an argument of the wrong type
DeclaresP == <<"type", "P", "{", "x", ":", "int", "}", ";">>
ConstructsP(arguments) == <<"P", "(">> \o arguments \o <<")">>
TypeclassPrograms ==
    {DeclaresP \o ConstructsP(<<"1">>),
     DeclaresP \o ConstructsP(<<"1">>) \o <<";", "0">>,
     DeclaresP \o <<"val", "y", ":", "type", "P", "=">> \o ConstructsP(<<"1">>)
         \o <<";", "0">>,
     DeclaresP \o <<"val", "y", ":", "type", "P", "=">>
         \o ConstructsP(<<"1", ",", "2">>) \o <<";", "0">>,
     DeclaresP \o ConstructsP(<<"true">>) \o <<";", "0">>}

\* a match on x, bound to the literal of type t, with the cases given
Case(pattern, body) == <<"case", pattern, "=", "{", body, "}", ";">>
MatchOn(t, literal, cases) ==
    <<"val", "x", ":", t, "=", literal, ";", "match", "(", "x", ")", "{">>
    \o cases \o <<"}">>
\* a match on a list, with the list itself as the pattern of its one case
MatchOnList ==
    <<"val", "x", ":", "List", "[", "int", "]", "=", "List", "{", "1", "}", ";",
      "match", "(", "x", ")", "{">> \o Case("x", "1") \o <<"}">>
DeadCase == MatchOn("int", "1", Case("any", "2") \o Case("1", "0"))
MatchPrograms ==
    {MatchOn("int", n, Case("1", "2") \o Case("2", "0")) : n \in Numbers}
    \cup {MatchOn("int", "1", Case("1", "2") \o Case("1", "0")),
          MatchOn("int", "2", Case("1", "2") \o Case("any", "0")),
          MatchOn("bool", "true", Case("false", "0") \o Case("true", "1")),
          MatchOnList,
          MatchOn("int", "1", <<>>),
          DeadCase}
RecursivePrograms ==
    {GenericRecursive \o <<"f", "[", "int", "]", "(", "2", ")">>,
     Recursive \o <<"f", "(", "true", ")">>,
     Recursive \o <<"f", "(", "false", ")">>,
     CallsG \o CallsF \o <<"f", "[", "int", "]", "(", "2", ")">>,
     CallsG \o IdentityG \o <<"f", "[", "int", "]", "(", "2", ")">>}

\* functions whose body is not of the declared return type, or refers to a
\* name that nothing binds, with a call of the function
IllTypedBodies ==
    {<<"func", "f", "(", ")", "->", "int", "=", "true", ";", "f", "(", ")">>,
     <<"func", "f", "(", ")", "->", "int", "=", "y", ";", "f", "(", ")">>,
     <<"func", "f", "[", "T", "]", "(", ")", "->", "int", "=", "true", ";",
       "f", "[", "int", "]", "(", ")">>,
     <<"func", "f", "[", "T", "]", "(", ")", "->", "int", "=", "y", ";",
       "f", "[", "int", "]", "(", ")">>}

Sources ==
    {<<a, op, b>> : a \in Numbers, b \in Numbers, op \in {"/", "%", "*", "<", "=="}}
    \cup {ListOfTwo \o <<"xs", "(", i, ")">> : i \in DOMAIN stoi}
    \cup {<<"val", "x", ":", t, "=", v, ";", "x">> :
             t \in {"int", "bool", "foo", "val"}, v \in {"1", "true"}}
    \cup {<<"'", c, "'">> : c \in {"a", "\\n", "\\q"}}
    \cup NestedBlocks
    \cup FunctionPrograms
    \cup RecursivePrograms
    \cup IllTypedBodies
    \cup {DeclaredTwice, NamedAsBuiltin}
    \cup TypeclassPrograms \cup MatchPrograms
    \cup {<<>>,
          <<"1", "@", "2">>, <<"1x">>, <<"y">>, <<"x", "(", "0", ")">>,
          <<"val", "x", ":", "=", "1", ";", "x">>,
          <<"val", "x", "int", "=", "1", ";", "x">>,
          <<"val", "x", ":", "int", "=", "y", ";", "x">>,
          <<"List", "{", "1", ",", "true", "}">>,
          <<"{", "List", "{", "1", ",", "true", "}", "}">>,
          <<"List", "{", "1", ",", "2", "}">>,
          ListOfTwo \o <<"xs">>,
          ListOfTwo \o <<"xs", "(", "true", ")">>,
          ListOfTwo \o <<"xs", "(", ")">>,
          <<"if", "(", "1", "<", "2", ")", "1", "else", "2">>,
          <<"if", "(", "2", "<", "1", ")", "1", "else", "2", "/", "0">>,
          <<"if", "(", "1", ")", "1", "else", "2">>,
          <<"if", "(", "true", ")", "1", "else", "false">>,
          <<"1", ";", "2">>,
          <<"val", "x", ":", "int", "=", "2", ";", "x", "%", "0">>,
          <<"val", "x", ":", "int", "=", "2", ";", "x", "/", "x">>,
          <<"!", "true">>, <<"!", "1">>,
          <<"true", "&&", "false">>, <<"1", "||", "true">>,
          <<"(", "1", "<", "2", ")", "==", "true">>,
          <<"1", "<", "2", "*", "2">>}

Init ==
    /\ pc = "start"
    /\ sourceStream \in Sources
    /\ lexer = NoLexer
    /\ parser = NoParser
    /\ tree = 0
    /\ typeChecker = NoTypeChecker
    /\ interpreter = NoInterpreter
    /\ status = Status("running", -1)
    /\ started = <<>>
    /\ TypesIdle
    /\ BuiltinIdle
    /\ ImportsIdle

\* "if (x.errorOccurred()) exit(code)" after a phase of main: [pc, status]
afterPhaseUnchecked(errorOccurred, code, next) ==
    [pc |-> next, status |-> Status("running", -1)]
afterPhase(errorOccurred, code, next) ==
    IF errorOccurred THEN [pc |-> "exited", status |-> Status("exit", code)]
    ELSE [pc |-> next, status |-> Status("running", -1)]

\* main up to "if (sourceStream.empty()) exit(2)"
ReadSource ==
    /\ pc = "start"
    /\ LET after == afterPhase(sourceStream = <<>>, 2, "lex")
       IN pc' = after.pc /\ status' = after.status
    /\ UNCHANGED <<sourceStream, lexer, parser, tree, typeChecker, interpreter,
                   started, tyVars, bVars, impVars>>

\* the lexer phase with the check of its latch
Lex ==
    /\ pc = "lex"
    /\ started' = Append(started, "lexer")
    /\ lexer' = makeTokenStream(NoLexer, sourceStream)
    /\ LET after == afterPhase(lexer'.error, 3, "parse")
       IN pc' = after.pc /\ status' = after.status
    /\ UNCHANGED <<sourceStream, parser, tree, typeChecker, interpreter,
                   tyVars, bVars, impVars>>

\* the parser phase with the check of its latch; an exception that leaves
\* makeTree leaves main uncaught
Parse ==
    /\ pc = "parse"
    /\ started' = Append(started, "parser")
    /\ LET made == makeTree(lexer.tokenStream)
       IN parser' = made.p /\ tree' = made.e
    /\ LET after == afterPhase(parser'.error, 4, "check")
       IN IF parser'.thrown
          THEN pc' = "exited" /\ status' = Status("abort", -1)
          ELSE pc' = after.pc /\ status' = after.status
    /\ UNCHANGED <<sourceStream, lexer, typeChecker, interpreter, tyVars, bVars, impVars>>

\* the type checker phase with the check of its latch; an exception that
\* leaves check() leaves main uncaught
Check ==
    /\ pc = "check"
    /\ started' = Append(started, "typeChecker")
    /\ \E ub \in BadCastOutcomes :
          typeChecker' = check(parser.eh, parser.th, tree, ub)
    /\ LET after == afterPhase(typeChecker'.error, 5, "run")
       IN IF typeChecker'.killed
          THEN pc' = "exited" /\ status' = Status("signal", -1)
          ELSE IF typeChecker'.thrown
          THEN pc' = "exited" /\ status' = Status("abort", -1)
          ELSE pc' = after.pc /\ status' = after.status
    /\ UNCHANGED <<sourceStream, lexer, parser, tree, interpreter, tyVars, bVars, impVars>>

\* the interpreter phase to the end of main: the try block around the
\* phases is commented out, so a RuntimeException leaves main uncaught and
\* std::terminate aborts the process
Interpret ==
    /\ pc = "run"
    /\ started' = Append(started, "interpreter")
    /\ \E ub \in ModByZeroOutcomes, nullRead \in NullReadOutcomes :
          interpreter' = run(typeChecker.eh, typeChecker.th, tree, ub, nullRead)
    /\ pc' = "exited"
    /\ status' = IF interpreter'.killed THEN Status("signal", -1)
                 ELSE IF interpreter'.thrown THEN Status("abort", -1)
                 ELSE IF afterPhase(interpreter'.error, 6, "end").pc = "end"
                 THEN Status("exit", 0)
                 ELSE Status("exit", 6)
    /\ UNCHANGED <<sourceStream, lexer, parser, tree, typeChecker, tyVars, bVars, impVars>>

Next == ReadSource \/ Lex \/ Parse \/ Check \/ Interpret

Spec == Init /\ [][Next]_vars

Range(f) == {f[i] : i \in DOMAIN f}

\* the expressions of the tree under e
RECURSIVE Nodes(_, _)
Nodes(eh, e) ==
    IF e = 0 THEN {}
    ELSE LET n == eh[e]
         IN {e} \cup Nodes(eh, n.leftSide) \cup Nodes(eh, n.rightSide)
                \cup Nodes(eh, n.value) \cup Nodes(eh, n.afterLet)
                \cup Nodes(eh, n.condition) \cup Nodes(eh, n.ifBranch)
                \cup Nodes(eh, n.elseBranch) \cup Nodes(eh, n.body)
                \cup (IF n.expType \in {"APP", "CASE"} THEN Nodes(eh, n.ident)
                      ELSE {})
                \cup UNION {Nodes(eh, n.cases[i]) : i \in 1..Len(n.cases)}
                \cup UNION {Nodes(eh, n.arguments[i]) : i \in 1..Len(n.arguments)}
                \cup UNION {Nodes(eh, n.values[i]) : i \in 1..Len(n.values)}

\* lexical scoping: the references under e paired with the Let that binds
\* them, binders giving the innermost enclosing Let of each name
RECURSIVE Scope(_, _, _)
Scope(eh, e, binders) ==
    IF e = 0 THEN {}
    ELSE LET n == eh[e]
             under(es) == UNION {Scope(eh, es[i], binders) : i \in 1..Len(es)}
         IN CASE n.expType = "REF" ->
                   IF n.ident \in DOMAIN binders
                   THEN {<<e, binders[n.ident]>>} ELSE {}
              [] n.expType = "LET" ->
                   Scope(eh, n.value, binders)
                   \cup Scope(eh, n.afterLet,
                              [name \in DOMAIN binders \cup {n.ident} |->
                                  IF name = n.ident THEN e ELSE binders[name]])
              [] n.expType = "APP" ->
                   Scope(eh, n.ident, binders) \cup under(n.arguments)
              [] OTHER ->
                   under(<<n.leftSide, n.rightSide, n.condition, n.ifBranch,
                           n.elseBranch, n.body>> \o n.values)

\* the programs that divide a number by the literal 0
ZeroDivisions == {<<a, op, "0">> : a \in Numbers, op \in {"/", "%"}}

\* C1: evaluating a / b or a % b with b = 0 never performs the arithmetic;
\* for both operators the interpreter raises a fatal runtime error: its
\* latch is set and the evaluation is aborted.
C1_DivModByZeroIsFatal ==
    Len(started) = 4 =>
        /\ \A i \in 1..Len(interpreter.arith) :
              interpreter.arith[i].op \in {"DIV", "MOD"}
                  => interpreter.arith[i].r # 0
        /\ sourceStream \in ZeroDivisions
              => interpreter.error /\ interpreter.thrown

\* C2: every runtime error the interpreter reports ends the run with the
\* driver exiting with code 6, never with code 0 and never by an uncaught
\* exception.
C2_RuntimeErrorExitsSix ==
    (Len(started) = 4 /\ interpreter.log # <<>>) => status = Status("exit", 6)

\* C3: the driver runs the lexer, the parser, the type checker and the
\* interpreter in that order, checks the latch of a phase after the phase and
\* exits with 3, 4 or 5 as soon as the lexer's, parser's or type checker's
\* latch is set; no later phase starts after an earlier latch was set.
C3_PhasesInOrderWithLatchChecks ==
    /\ \A i \in 1..Len(started) :
          started[i] = <<"lexer", "parser", "typeChecker", "interpreter">>[i]
    /\ lexer.error <=> status = Status("exit", 3)
    /\ parser.error <=> status = Status("exit", 4)
    /\ typeChecker.error <=> status = Status("exit", 5)
    /\ lexer.error => started = <<"lexer">>
    /\ parser.error => started = <<"lexer", "parser">>
    /\ typeChecker.error => started = <<"lexer", "parser", "typeChecker">>

\* the parser reported an error: main exited with 4 and neither the type
\* checker nor the interpreter was started
C3_Witness ==
    /\ status = Status("exit", 4)
    /\ parser.error
    /\ ~lexer.error
    /\ started = <<"lexer", "parser">>
    /\ typeChecker = NoTypeChecker
    /\ interpreter = NoInterpreter

\* C4: every error the parser reports sets the parser's latch, so that
\* after parsing main exits with 4 and the type checker and the interpreter
\* do not run.
C4_ParserErrorsSetLatch ==
    (Len(started) >= 2 /\ parser.log # <<>>) =>
        /\ parser.error
        /\ status = Status("exit", 4)
        /\ Len(started) = 2

\* C13: a Let evaluates what follows it in a copy of the environment, in
\* the type checker and in the interpreter alike: after a nested block that
\* binds x, the enclosing environment's binding for x is what it was, so a
\* reference denotes the type and the value of the Let in whose scope it is.
C13_LetCopiesEnvironment ==
    /\ pc \in {"run", "exited"} /\ "typeChecker" \in Range(started) =>
          \A b \in Scope(typeChecker.eh, tree, <<>>) :
              typeChecker.eh[b[1]].returnType = typeChecker.eh[b[2]].valueType
    /\ "interpreter" \in Range(started) =>
          \A b \in Scope(interpreter.eh, tree, <<>>) :
              \A i, j \in 1..Len(interpreter.returns) :
                  (/\ interpreter.returns[i].expression = b[1]
                   /\ interpreter.returns[j].expression =
                          interpreter.eh[b[2]].value)
                  => interpreter.returns[i].value = interpreter.returns[j].value

\* C7: when check() finishes with the latch clear, no expression reachable
\* from the root has a returnType that is Unknown.
C7_NoUnknownAfterCheck ==
    (Len(started) >= 3 /\ ~typeChecker.error) =>
        \A n \in Nodes(typeChecker.eh, tree) :
            Concrete(ReadType(typeChecker.th, typeChecker.eh[n].returnType))

\* C8: the value the interpreter returns for an expression of a checked
\* program carries a type equivalent to the expression's returnType as the
\* type checker left it; for a list indexing xs(i) that is the element type.
C8_RuntimeTypeIsReturnType ==
    Len(started) = 4 =>
        \A i \in 1..Len(interpreter.returns) :
            LET r == interpreter.returns[i]
            IN Equivalent(
                   ReadType(interpreter.th, interpreter.vh[r.value].type),
                   ReadType(interpreter.th, interpreter.eh[r.expression].returnType))

\* the function declarations of the program at root
Declared(eh, root) ==
    IF root # 0 /\ eh[root].expType = "PROG" THEN Range(eh[root].functions)
    ELSE {}

\* the declarations that the application a names
Callees(eh, root, a) ==
    {d \in Declared(eh, root) :
        /\ eh[a].expType = "APP"
        /\ eh[eh[a].ident].expType = "REF"
        /\ eh[d].name = eh[eh[a].ident].ident}

\* the places of returns, before place i, where the body of the call that
\* returned at i returned a reference to the name: those after place j,
\* where the call's argument returned
BodyReferences(m, d, name, j, i) ==
    {r \in (j + 1)..(i - 1) :
        /\ m.returns[r].expression \in Nodes(m.eh, m.eh[d].functionBody)
        /\ m.eh[m.returns[r].expression].expType = "REF"
        /\ m.eh[m.returns[r].expression].ident = name}

\* C14: inside the body of a called function every parameter name denotes
\* the value of its argument, evaluated in the caller's environment, even
\* when the caller's or the captured environment binds the same name.
C14_ParametersDenoteArguments ==
    "interpreter" \in Range(started) =>
        \A i \in 1..Len(interpreter.returns) :
            \A d \in Callees(interpreter.eh, tree,
                              interpreter.returns[i].expression) :
                \A k \in 1..Len(interpreter.eh[d].parameters) :
                    \A j \in 1..(i - 1) :
                        (/\ k <= Len(interpreter.eh[interpreter.returns[i]
                                                        .expression].arguments)
                         /\ interpreter.returns[j].expression =
                                interpreter.eh[interpreter.returns[i].expression]
                                    .arguments[k]
                         /\ \A l \in (j + 1)..(i - 1) :
                                interpreter.returns[l].expression
                                    # interpreter.returns[j].expression)
                        => \A r \in BodyReferences(
                                        interpreter, d,
                                        interpreter.eh[interpreter.eh[d]
                                                           .parameters[k]].name,
                                        j, i) :
                               interpreter.vh[interpreter.returns[r].value]
                                   = interpreter.vh[interpreter.returns[j].value]

\* a call g(1) of "func g(x : int) -> int = x" returned: the reference to x
\* in the body returned the value of the argument
C14_ParameterRead ==
    /\ Len(started) = 4
    /\ \E i \in 1..Len(interpreter.returns) :
          \E d \in Callees(interpreter.eh, tree,
                            interpreter.returns[i].expression) :
              \E j \in 1..(i - 1) :
                  /\ Len(interpreter.eh[d].parameters) = 1
                  /\ interpreter.returns[j].expression =
                         interpreter.eh[interpreter.returns[i].expression]
                             .arguments[1]
                  /\ \E r \in BodyReferences(
                                  interpreter, d,
                                  interpreter.eh[interpreter.eh[d]
                                                     .parameters[1]].name,
                                  j, i) :
                         interpreter.returns[r].value
                             = interpreter.returns[j].value

\* the applications of the function of the name that have not returned
ActiveCalls(m, name) ==
    {a \in DOMAIN m.eh :
        /\ m.eh[a].expType = "APP"
        /\ m.eh[m.eh[a].ident].expType = "REF"
        /\ m.eh[m.eh[a].ident].ident = name
        /\ \A i \in 1..Len(m.returns) : m.returns[i].expression # a}

\* C15: the call stack is balanced: an application pushes one frame and
\* pops it when the call returns, so when the program has returned normally
\* the call stack is as deep as before the run, empty, and the stack trace
\* of a fatal error lists only calls that have not returned.
C15_CallStackBalanced ==
    Len(started) = 4 =>
        /\ ~Stopped(interpreter) => interpreter.callStack = <<>>
        /\ \A k \in 1..Len(interpreter.stackTrace) :
              ActiveCalls(interpreter, interpreter.stackTrace[k].name) # {}

\* C16: checking a call of a generic function does not change the declared
\* signature of the function: after check(), the type of every function
\* declaration, with every Generic in its parameter and return types at any
\* depth, is the type the parser gave it.
C16_DeclaredSignatureKept ==
    Len(started) >= 3 =>
        \A d \in Declared(typeChecker.eh, tree) :
            ReadType(typeChecker.th, typeChecker.eh[d].returnType)
                = ReadType(parser.th, parser.eh[d].returnType)

\* the applications, in the heap eh, of a declared function that has
\* generic parameters, with a number of generic-argument types other than
\* the number of those parameters
WrongGenericCount(eh, th, root) ==
    {a \in DOMAIN eh :
        \E d \in Callees(eh, root, a) :
            /\ th[eh[d].returnType].genericTypes # <<>>
            /\ Len(eh[a].genericReplacementTypes)
                   # Len(th[eh[d].returnType].genericTypes)}

\* C20: an application of a function that declares n > 0 generic
\* parameters is accepted only with exactly n generic-argument types; with
\* none, fewer or more the type checker sets its latch, and it keeps
\* running: check() returns and main exits with 5.
C20_GenericCountChecked ==
    (Len(started) >= 3 /\ WrongGenericCount(parser.eh, parser.th, tree) # {}) =>
        /\ typeChecker.error
        /\ ~typeChecker.thrown
        /\ status = Status("exit", 5)

\* the applications, in the heap eh, of a declared function with a number
\* of arguments other than the number of its parameters
WrongArgumentCount(eh, root) ==
    {a \in DOMAIN eh :
        \E d \in Callees(eh, root, a) :
            Len(eh[a].arguments) # Len(eh[d].parameters)}

\* C21: when an application passes more or fewer arguments than the callee
\* has parameters, the type checker reports it, sets its latch and goes on
\* checking: check() returns, it is not ended by an index past the declared
\* parameters, and main exits with 5.
C21_ArityMismatchReported ==
    (Len(started) >= 3 /\ WrongArgumentCount(parser.eh, tree) # {}) =>
        /\ typeChecker.error
        /\ ~typeChecker.thrown
        /\ status = Status("exit", 5)

\* the declared functions whose body applies the function's own name
SelfCallers(eh, root) ==
    {d \in Declared(eh, root) :
        \E a \in Nodes(eh, eh[d].functionBody) :
            /\ eh[a].expType = "APP"
            /\ eh[eh[a].ident].expType = "REF"
            /\ eh[eh[a].ident].ident = eh[d].name}

\* C22: a function that calls itself type-checks: when the checker checks
\* the body, at a call site of a generic function too, the reference to the
\* function's own name resolves through the binding of the program, and no
\* "does not exist in this scope" is reported.
C22_SelfCallResolves ==
    (/\ Len(started) >= 3
     /\ sourceStream \in RecursivePrograms
     /\ SelfCallers(parser.eh, tree) # {}) =>
        \A i \in 1..Len(typeChecker.log) :
            typeChecker.log[i] # "does not exist in this scope"

\* C27: type checking terminates on every program: the check of the body of
\* a generic function at a call site is entered finitely often, an
\* application whose callee's body is being checked is not entered again,
\* so the stack is never exhausted by the checker.
C27_BodyCheckNotReentered ==
    Len(started) >= 3 => ~typeChecker.exhausted

\* C28: the body of every called user-defined function is checked against
\* the declared return type, generic or not: a type error or an unbound
\* name in the body of a called function sets the type checker's latch.
C28_CalledBodiesAreChecked ==
    (Len(started) >= 3 /\ sourceStream \in IllTypedBodies) => typeChecker.error

\* the function values the interpreter made for the declaration d
ValuesOf(m, d) ==
    {v \in DOMAIN m.vh :
        /\ "functionBody" \in DOMAIN m.vh[v]
        /\ m.th[m.vh[v].type].dataType = "FUNC"
        /\ m.vh[v].functionBody = m.eh[d].functionBody}

\* C26: the captured environment of every function value made from a
\* program's functions does not hold the function's own name, and that of a
\* built-in is empty; so the function's name in a recursive call denotes the
\* function through the environment of the call.
C26_CaptureExcludesSelf ==
    Len(started) = 4 =>
        \A d \in Declared(interpreter.eh, tree) :
            /\ \A v \in ValuesOf(interpreter, d) :
                  /\ interpreter.eh[d].name \notin
                         DOMAIN interpreter.nh[interpreter.vh[v]
                                                   .functionBodyEnvironment]
                  /\ interpreter.vh[v].isBuiltin =>
                         interpreter.nh[interpreter.vh[v].functionBodyEnvironment]
                             = [n \in {} |-> 0]
            /\ d \in SelfCallers(interpreter.eh, tree) =>
                  \A i \in 1..Len(interpreter.returns) :
                      (/\ interpreter.returns[i].expression
                              \in Nodes(interpreter.eh,
                                        interpreter.eh[d].functionBody)
                       /\ interpreter.eh[interpreter.returns[i].expression]
                              .expType = "REF"
                       /\ interpreter.eh[interpreter.returns[i].expression]
                              .ident = interpreter.eh[d].name)
                      => interpreter.returns[i].value \in ValuesOf(interpreter, d)

\* the second of two functions named f was given a capture without f, although
\* the program's environment held the first f when it was made
C26_Witness ==
    /\ Len(started) = 4
    /\ sourceStream = DeclaredTwice
    /\ Len(interpreter.eh[tree].functions) = 2
    /\ \A d \in Declared(interpreter.eh, tree) :
          /\ ValuesOf(interpreter, d) # {}
          /\ \A v \in ValuesOf(interpreter, d) :
                "f" \notin DOMAIN interpreter.nh[interpreter.vh[v]
                                                     .functionBodyEnvironment]

\* C29: type comparison is symmetric in its outcome: compare(a, b) and
\* compare(b, a), each on new objects of a and b, return the same truth value.
C29_CompareSymmetric ==
    tyPc = "compared" => tyOut.ok = tyOut.swapped

\* C30: a failure while an import is expanded (the file cannot be opened, or
\* its text has a lexical error) has set the parser's error latch, the one
\* main reads, when preprocessImports has returned.
C30_ImportFailureSetsLatch ==
    (imports.pc = "returned" /\ imports.failed) => imports.error

\* the programs that construct a P from one int against an Unknown expected
\* type: as the last expression and as a statement
ConstructionsAgainstUnknown ==
    {DeclaresP \o ConstructsP(<<"1">>),
     DeclaresP \o ConstructsP(<<"1">>) \o <<";", "0">>}

\* C23: a typeclass constructor application with the right number of
\* well-typed arguments type-checks against an Unknown expected type: no
\* mismatch is reported, the latch stays clear, and the type of the
\* application is the typeclass type.
C23_ConstructorChecksAgainstUnknown ==
    (Len(started) >= 3 /\ sourceStream \in ConstructionsAgainstUnknown) =>
        /\ ~typeChecker.error
        /\ ~typeChecker.killed
        /\ \A i \in 1..Len(typeChecker.log) : typeChecker.log[i] # "Mismatched type"
        /\ \A a \in Nodes(typeChecker.eh, tree) :
              typeChecker.eh[a].expType = "APP" =>
                  typeChecker.th[typeChecker.eh[a].returnType].dataType = "TYPECLASS"

DeadCaseWarning == "Warning: case statement below 'any' is always ignored"

\* C24: a case below a `case any` is flagged with a diagnostic only: when the
\* flag is all the type checker reported, its latch is clear and the program
\* goes on to the interpreter.
C24_DeadCaseOnlyFlagged ==
    (/\ Len(started) >= 3
     /\ ~typeChecker.thrown
     /\ \A i \in 1..Len(typeChecker.log) : typeChecker.log[i] = DeadCaseWarning) =>
        /\ ~typeChecker.error
        /\ pc = "exited" => Len(started) = 4

\* whether the interpreter returned from the expression e, and the value
Evaluated(m, e) == \E i \in 1..Len(m.returns) : m.returns[i].expression = e
Result(m, e) ==
    m.returns[CHOOSE i \in 1..Len(m.returns) : m.returns[i].expression = e].value

\* the cases of the match mt that are `any` or whose pattern equals the
\* scrutinee: the same literal as the one the scrutinee is bound to, or the
\* scrutinee's own name
MatchingCases(m, root, mt) ==
    {k \in 1..Len(m.eh[mt].cases) :
        LET pattern == m.eh[m.eh[m.eh[mt].cases[k]].ident]
        IN \/ pattern.expType = "REF" /\ pattern.ident \in {"$any", m.eh[mt].ident}
           \/ /\ pattern.expType = "LIT"
              /\ \E l \in Nodes(m.eh, root) :
                    /\ m.eh[l].expType = "LET"
                    /\ m.eh[l].ident = m.eh[mt].ident
                    /\ m.eh[m.eh[l].value].expType = "LIT"
                    /\ m.th[m.eh[m.eh[l].value].returnType].dataType
                           = m.th[pattern.returnType].dataType
                    /\ m.eh[m.eh[l].value].data = pattern.data}

\* C25: the interpreter of a match executes the body of exactly one case, the
\* first whose pattern equals the scrutinee or is `any`, and its value is the
\* value of the match; no pattern of a later case is evaluated; when no case
\* matches, no body is executed and the value is the Null sentinel.
C25_FirstMatchingCaseRuns ==
    Len(started) = 4 =>
        \A mt \in Nodes(interpreter.eh, tree) :
            interpreter.eh[mt].expType = "MATCH" =>
                LET cases == interpreter.eh[mt].cases
                    matching == MatchingCases(interpreter, tree, mt)
                    body(k) == interpreter.eh[cases[k]].body
                IN /\ Evaluated(interpreter, mt)
                   /\ IF matching = {}
                      THEN /\ \A k \in 1..Len(cases) :
                                 ~Evaluated(interpreter, body(k))
                           /\ Result(interpreter, mt) = interpreter.errorNullValue
                      ELSE LET first == CHOOSE k \in matching :
                                            \A j \in matching : k <= j
                           IN /\ Evaluated(interpreter, body(first))
                              /\ Result(interpreter, mt)
                                     = Result(interpreter, body(first))
                              /\ \A k \in 1..Len(cases) :
                                    /\ k # first =>
                                          ~Evaluated(interpreter, body(k))
                                    /\ k > first =>
                                          ~Evaluated(interpreter,
                                                     interpreter.eh[cases[k]].ident)
                                    /\ k < first =>
                                          Evaluated(interpreter,
                                                    interpreter.eh[cases[k]].ident)
=============================================================================
